---- MODULE Spec2Model ----
(***************************************************************************)
(* State-machine model of the cwc compositor core: containers, the output  *)
(* with its workspaces, the binary-space-partition (BSP) layout, the       *)
(* session lock and keyboard dispatch.                                     *)
(*                                                                         *)
(* Pointers are modelled as identifiers with NULL = 0.  A handler that     *)
(* dereferences NULL (or freed memory) ends the process: the model sets    *)
(* `crashed` and nothing runs afterwards.                                  *)
(***************************************************************************)
EXTENDS Integers, Sequences, FiniteSets, TLC

\* ------------------------------------------------------------------ bounds
NumCont == 4            \* container identities available to the model
NumWs   == 2            \* workspaces 1..NumWs are used (of MAX_WORKSPACE)
NumTop  == 4            \* toplevel identities available to the model
MaxEvents == 4          \* events handled in one run of the window manager
MaxOps  == 3            \* BSP operations other than insert in one run
NumLock == 2            \* session lock objects that can exist at a time
MaxLockEvents == 5      \* events handled in one run of the lock scenario
MaxTagEvents == 4       \* events handled in one run of the tag scenario
MaxBinds == 1           \* keyboard bindings registered by the configuration

NULL == 0

\* max 30 workspace/tags
MAX_WORKSPACE == 30

Cont      == 1..NumCont
Workspace == 1..NumWs
\* the indices of cwc_output_state.view_info that are used: 0 is the view of
\* "view none"
ViewIndex == 0..NumWs
Node      == 1..(2 * NumCont)
Top       == 1..NumTop
Locker    == 1..NumLock

\* the modifier masks and keysyms the keyboard delivers: no modifier or
\* WLR_MODIFIER_ALT, and the keysyms of "a" and "b"
NumLayer == 2
Signals == {"client::map", "custom::signal"}
Callbacks == {"on_toplevel_map", "on_custom_signal"}
\* the names of the displays; a struct cwc_output_state is the number it was
\* allocated as, and server.output_states counts the allocations
OutputNames == {"eDP-1", "DP-1", "HDMI-A-1"}
\* no struct cwc_output for a name: the display is not attached
NoOutput == [attached |-> FALSE, state |-> NULL, restored |-> FALSE,
             id |-> NULL]
\* cwc_hhmap_get() finds no struct cwc_signal_entry
NoSignalEntry == [exists |-> FALSE, c_callbacks |-> <<>>]
LayerId == 1..NumLayer
Modifiers == {0, 8}
Keysyms   == {97, 98}

\* output modes the model draws the usable area from
UsableAreas ==
    { [x |-> 0, y |-> 0, width |-> 1600, height |-> 900],
      [x |-> 0, y |-> 0, width |-> 1800, height |-> 900] }

VARIABLES
    nodes,        \* heap of struct bsp_node, by node id
    cont,         \* heap of struct cwc_container, by container id
    view_info,    \* cwc_output_state.view_info[]
    ostate,       \* the rest of struct cwc_output_state
    usable_area,  \* cwc_output.usable_area
    top,          \* heap of struct cwc_toplevel, by toplevel id
    server,       \* struct cwc_server and the seat: insert mark, keyboard
                  \* focus, session lock
    events,       \* number of events handled so far
    crashed,      \* the process died (NULL dereference, SIGABRT)
    bsp_trace,    \* history: containers inserted since the tree was empty,
                  \* the number of other BSP operations so far, and the
                  \* tree as it was before the latest insert
    last_op       \* history: the latest window-manager operation, the
                  \* container it was called on and that container's state
                  \* bits before the call

vars == <<nodes, cont, view_info, ostate, usable_area, top, server, events,
          crashed, bsp_trace, last_op>>

\* ------------------------------------------------------------- data model
\* struct bsp_node after free(): no field of it is meaningful
FreeNode ==
    [type |-> "FREE", container |-> NULL, parent |-> NULL, left |-> NULL,
     right |-> NULL, enabled |-> FALSE, split_type |-> "AUTO",
     left_wfact |-> <<0, 1>>, x |-> 0, y |-> 0, width |-> 0, height |-> 0]

ZeroBox == [x |-> 0, y |-> 0, width |-> 0, height |-> 0]

\* master_state of a view after cwc_output_state_create(); mwfact is a
\* fraction <<numerator, denominator>>
DefaultMasterState ==
    [master_count |-> 1, mwfact |-> <<1, 2>>, current_layout |-> "tile"]

\* struct cwc_container that is not allocated
FreeCont ==
    [alive |-> FALSE, state |-> {}, workspace |-> 0, tag |-> {},
     bsp_node |-> NULL, x |-> 0, y |-> 0, width |-> 0, height |-> 0,
     floating_box |-> ZeroBox, toplevels |-> <<>>, children |-> <<>>,
     enabled |-> FALSE]

\* struct cwc_toplevel of a surface that is not mapped
FreeTop == [mapped |-> FALSE, container |-> NULL, unmanaged |-> FALSE]

\* a wlr_surface pointer: no surface, the surface of a toplevel, or the
\* surface of a session lock
NoSurface          == <<"none", 0>>
ToplevelSurface(t) == <<"toplevel", t>>
LockSurface(l)     == <<"lock", l>>
LayerSurface(s)    == <<"layer", s>>

\* struct cwc_layer_surface that is not allocated; layer and
\* keyboard_interactive are the current state of its wlr_layer_surface_v1
FreeLayer == [alive |-> FALSE, initialized |-> FALSE, mapped |-> FALSE,
              layer |-> "BACKGROUND", keyboard_interactive |-> "NONE"]

\* a key event that wlr_seat_keyboard_notify_key() was not called for
Withheld == <<"withheld", 0>>

\* struct cwc_session_locker that is not allocated, or as calloc() returns it
\* once alive is set; locked_sent is the flag of the wlr_session_lock_v1
FreeLocker == [alive |-> FALSE, lock_surface |-> FALSE, locked_sent |-> FALSE]

\* struct cwc_keybind_info: no entry in the map, or a binding of type
\* CWC_KEYBIND_TYPE_LUA or CWC_KEYBIND_TYPE_C with the callbacks it carries
NoBind == [type |-> "NONE", on_press |-> FALSE, on_release |-> FALSE]

\* the world the handlers read and write
World ==
    [nodes |-> nodes, cont |-> cont, view_info |-> view_info,
     ostate |-> ostate, usable_area |-> usable_area, top |-> top,
     server |-> server, crashed |-> crashed]

Crash(W) == [W EXCEPT !.crashed = TRUE]

Commit(W) ==
    /\ nodes' = W.nodes
    /\ cont' = W.cont
    /\ view_info' = W.view_info
    /\ ostate' = W.ostate
    /\ top' = W.top
    /\ server' = W.server
    /\ crashed' = W.crashed

\* calloc(1, sizeof(struct bsp_node)): the lowest free node id
calloc_node(W) ==
    CHOOSE n \in Node :
        /\ W.nodes[n].type = "FREE"
        /\ \A m \in Node : m < n => W.nodes[m].type # "FREE"

\* ------------------------------------------------ container predicates
cwc_container_is_fullscreen(W, c) == "FULLSCREEN" \in W.cont[c].state
cwc_container_is_maximized(W, c)  == "MAXIMIZED" \in W.cont[c].state
cwc_container_is_minimized(W, c)  == "MINIMIZED" \in W.cont[c].state
cwc_container_is_unmanaged(W, c)  == "UNMANAGED" \in W.cont[c].state
cwc_container_is_sticky(W, c)     == "STICKY" \in W.cont[c].state

cwc_container_is_configure_allowed(W, c) ==
    ~cwc_container_is_fullscreen(W, c) /\ ~cwc_container_is_maximized(W, c)

cwc_output_get_current_view_info(W) ==
    W.view_info[W.ostate.active_workspace]

cwc_container_is_floating(W, c) ==
    \/ "FLOATING" \in W.cont[c].state
    \/ cwc_output_get_current_view_info(W).layout_mode = "FLOATING"

cwc_container_should_save_floating_box(W, c) ==
    /\ cwc_container_is_floating(W, c)
    /\ ~cwc_container_is_fullscreen(W, c)
    /\ ~cwc_container_is_maximized(W, c)

\* ------------------------------------------------- container geometry
cwc_container_set_size(W, c, w, h) ==
    LET fb == IF cwc_container_should_save_floating_box(W, c)
              THEN [W.cont[c].floating_box EXCEPT !.width = w, !.height = h]
              ELSE W.cont[c].floating_box
    IN [W EXCEPT !.cont[c].floating_box = fb,
                 !.cont[c].width = w,
                 !.cont[c].height = h]

cwc_container_set_position(W, c, px, py) ==
    LET fb == IF cwc_container_should_save_floating_box(W, c)
              THEN [W.cont[c].floating_box EXCEPT !.x = px, !.y = py]
              ELSE W.cont[c].floating_box
    IN [W EXCEPT !.cont[c].floating_box = fb,
                 !.cont[c].x = px,
                 !.cont[c].y = py]

cwc_container_set_position_gap(W, c, px, py) ==
    LET gaps == cwc_output_get_current_view_info(W).useless_gaps
    IN cwc_container_set_position(W, c, px + gaps, py + gaps)

cwc_container_restore_floating_box(W, c) ==
    LET fb == W.cont[c].floating_box
        W1 == cwc_container_set_position(W, c, fb.x, fb.y)
    IN cwc_container_set_size(W1, c, fb.width, fb.height)

\* wlr_scene_node_set_position() on the container's scene tree
wlr_scene_node_set_position(W, c, px, py) ==
    [W EXCEPT !.cont[c].x = px, !.cont[c].y = py]

\* the border has thickness 0 (g_config.border_width = 0)
cwc_toplevel_set_size_surface(W, toplevel, w, h) ==
    LET gaps == cwc_output_get_current_view_info(W).useless_gaps
        outside_width == (0 + gaps) * 2
    IN cwc_container_set_size(W, W.top[toplevel].container,
                              w + outside_width, h + outside_width)

cwc_toplevel_set_position(W, toplevel, px, py) ==
    cwc_container_set_position(W, W.top[toplevel].container, px - 0, py - 0)

\* wlr_output width and height: the usable area and the panels left of and
\* above it
wlr_output_size(W) ==
    [width |-> W.usable_area.x + W.usable_area.width,
     height |-> W.usable_area.y + W.usable_area.height]

\* cwc_container_for_each_toplevel(container, all_toplevel_set_fullscreen):
\* every toplevel of the container gives the container the same box
all_toplevel_set_fullscreen(W, container, set) ==
    LET front == Head(W.cont[container].toplevels) IN
    IF ~set \/ W.cont[container].toplevels = <<>> THEN W
    ELSE cwc_toplevel_set_position(
             cwc_toplevel_set_size_surface(W, front, wlr_output_size(W).width,
                                           wlr_output_size(W).height),
             front, 0, 0)

all_toplevel_set_maximized(W, container, set) ==
    LET front == Head(W.cont[container].toplevels) IN
    IF ~set \/ W.cont[container].toplevels = <<>> THEN W
    ELSE cwc_toplevel_set_position(
             cwc_toplevel_set_size_surface(W, front, W.usable_area.width,
                                           W.usable_area.height),
             front, W.usable_area.x, W.usable_area.y)

\* ------------------------------------------------------------ BSP layout
\* a pointer the code may not dereference: NULL or freed memory
Dangling(W, n) == n = NULL \/ W.nodes[n].type = "FREE"

bsp_entry_get(W, workspace) ==
    IF W.view_info[workspace].bsp_root_entry.root = NULL
    THEN NULL ELSE workspace

bsp_entry_init(W, workspace, root) ==
    [W EXCEPT !.view_info[workspace].bsp_root_entry.root = root]

bsp_entry_fini(W, workspace) ==
    IF bsp_entry_get(W, workspace) = NULL THEN Crash(W)
    ELSE [W EXCEPT !.view_info[workspace].bsp_root_entry =
                        [root |-> NULL, last_focused |-> NULL]]

\* the sibling looked up on the right whatever side `me` is on
bsp_node_get_sibling_right(W, parent_node, me) == W.nodes[parent_node].right

bsp_node_get_sibling(W, parent_node, me) ==
    IF W.nodes[parent_node].left = me
    THEN W.nodes[parent_node].right ELSE W.nodes[parent_node].left

bsp_node_destroy(W, node) == [W EXCEPT !.nodes[node] = FreeNode]

\* bsp_node_reparent() that forgets to store the parent
bsp_node_reparent_lost(W, parent, node) == W

bsp_node_reparent(W, parent, node) == [W EXCEPT !.nodes[node].parent = parent]

bsp_node_set_position(W, node, px, py) ==
    [W EXCEPT !.nodes[node].x = px, !.nodes[node].y = py]

bsp_node_set_size(W, node, w, h) ==
    [W EXCEPT !.nodes[node].width = w, !.nodes[node].height = h]

\* (int)(length * left_wfact), left_wfact kept as the fraction num/den
ScaleInt(length, wfact) == (length * wfact[1]) \div wfact[2]

bsp_node_leaf_configure(W, node, px, py, width, height) ==
    LET container == W.nodes[node].container IN
    IF W.crashed THEN W
    ELSE IF container = NULL THEN Crash(W)
    ELSE IF ~cwc_container_is_configure_allowed(W, container) THEN W
    ELSE LET W1 == IF ~cwc_container_is_floating(W, container)
                   THEN cwc_container_set_position_gap(
                            cwc_container_set_size(W, container, width, height),
                            container, px, py)
                   ELSE W
         IN bsp_node_set_size(bsp_node_set_position(W1, node, px, py),
                              node, width, height)

RECURSIVE _bsp_node_leaf_get(_, _, _)
_bsp_node_leaf_get(W, node, to_left) ==
    IF Dangling(W, node) THEN NULL
    ELSE IF W.nodes[node].type = "LEAF" THEN node
    ELSE IF to_left THEN _bsp_node_leaf_get(W, W.nodes[node].left, TRUE)
    ELSE _bsp_node_leaf_get(W, W.nodes[node].right, FALSE)

find_closes_leaf_sibling(W, me) ==
    LET parent == W.nodes[me].parent IN
    IF W.nodes[parent].right = me
    THEN _bsp_node_leaf_get(W, W.nodes[parent].left, FALSE)
    ELSE _bsp_node_leaf_get(W, W.nodes[parent].right, TRUE)

RECURSIVE bsp_update_node(_, _)
bsp_update_node(W, parent) ==
    IF W.crashed THEN W
    ELSE IF Dangling(W, parent) THEN Crash(W)
    ELSE
    LET P     == W.nodes[parent]
        left  == P.left
        right == P.right
    IN
    IF Dangling(W, left) \/ Dangling(W, right) \/ P.split_type = "AUTO"
    THEN Crash(W)
    ELSE
    LET vert == P.split_type = "VERTICAL"
        lw0  == IF vert THEN ScaleInt(P.width, P.left_wfact) ELSE P.width
        lh0  == IF vert THEN P.height ELSE ScaleInt(P.height, P.left_wfact)
        rw   == IF vert THEN P.width - lw0 ELSE P.width
        rh   == IF vert THEN P.height ELSE P.height - lh0
        rx   == IF vert THEN P.x + lw0 ELSE P.x
        ry   == IF vert THEN P.y ELSE P.y + lh0
        renabled == W.nodes[right].enabled
        lenabled == W.nodes[left].enabled
        lw   == IF ~renabled THEN P.width ELSE lw0
        lh   == IF ~renabled THEN P.height ELSE lh0
        update_left(W1) ==
            IF lenabled
            THEN IF W1.nodes[left].type = "LEAF"
                 THEN bsp_node_leaf_configure(W1, left, P.x, P.y, lw, lh)
                 ELSE bsp_update_node(
                          bsp_node_set_position(W1, left, P.x, P.y), left)
            ELSE [W1 EXCEPT !.nodes[right].x = P.x, !.nodes[right].y = P.y,
                            !.nodes[right].width = P.width,
                            !.nodes[right].height = P.height]
        update_right(W2) ==
            IF W2.crashed \/ ~renabled THEN W2
            ELSE IF W2.nodes[right].type = "LEAF"
            THEN bsp_node_leaf_configure(W2, right, W2.nodes[right].x,
                                         W2.nodes[right].y,
                                         W2.nodes[right].width,
                                         W2.nodes[right].height)
            ELSE bsp_update_node(W2, right)
    IN
    update_right(update_left(
        [W EXCEPT !.nodes[left].x = P.x, !.nodes[left].y = P.y,
                  !.nodes[left].width = lw, !.nodes[left].height = lh,
                  !.nodes[right].x = rx, !.nodes[right].y = ry,
                  !.nodes[right].width = rw, !.nodes[right].height = rh]))

bsp_update_root(W, workspace) ==
    LET entry == bsp_entry_get(W, workspace)
        root  == W.view_info[workspace].bsp_root_entry.root
        ua    == W.usable_area
    IN
    IF W.crashed \/ entry = NULL THEN W
    ELSE IF Dangling(W, root) THEN Crash(W)
    ELSE IF W.nodes[root].type = "LEAF"
    THEN bsp_node_leaf_configure(W, root, ua.x, ua.y, ua.width, ua.height)
    ELSE bsp_update_node(
             bsp_node_set_position(
                 bsp_node_set_size(W, root, ua.width, ua.height),
                 root, ua.x, ua.y),
             root)

RECURSIVE bsp_get_root(_, _)
bsp_get_root(W, node) ==
    IF W.nodes[node].parent = NULL THEN node
    ELSE bsp_get_root(W, W.nodes[node].parent)

\* enable all the nodes up to the root; yields the world and the root
RECURSIVE _bsp_node_enable(_, _)
_bsp_node_enable(W, node) ==
    LET W1 == [W EXCEPT !.nodes[node].enabled = TRUE] IN
    IF W1.nodes[node].parent = NULL THEN [W |-> W1, node |-> node]
    ELSE _bsp_node_enable(W1, W1.nodes[node].parent)

bsp_node_enable(W, node) ==
    IF W.crashed THEN W
    ELSE IF Dangling(W, node) THEN Crash(W)
    ELSE LET update(r) ==
                 IF r.W.nodes[r.node].type = "INTERNAL"
                 THEN bsp_update_node(r.W, r.node)
                 ELSE bsp_update_root(r.W, r.W.ostate.active_workspace)
         IN update(_bsp_node_enable(W, node))

\* disable the node, and its ancestors while both their children are disabled
RECURSIVE _bsp_node_disable(_, _)
_bsp_node_disable(W, node) ==
    LET W1     == [W EXCEPT !.nodes[node].enabled = FALSE]
        parent == W1.nodes[node].parent
    IN
    IF parent = NULL THEN [W |-> W1, node |-> node]
    ELSE IF /\ ~W1.nodes[W1.nodes[parent].left].enabled
            /\ ~W1.nodes[W1.nodes[parent].right].enabled
    THEN _bsp_node_disable(W1, parent)
    ELSE [W |-> W1, node |-> node]

bsp_node_disable(W, node) ==
    IF W.crashed THEN W
    ELSE IF Dangling(W, node) THEN Crash(W)
    ELSE LET update(r) ==
                 IF /\ r.W.nodes[r.node].type = "INTERNAL"
                    /\ r.W.nodes[r.node].parent # NULL
                 THEN bsp_update_node(r.W, r.W.nodes[r.node].parent)
                 ELSE IF r.W.nodes[r.node].type = "LEAF"
                 THEN bsp_update_root(r.W, r.W.ostate.active_workspace)
                 ELSE r.W
         IN update(_bsp_node_disable(W, node))

bsp_last_focused_update(W, container) ==
    LET workspace == W.cont[container].workspace IN
    IF bsp_entry_get(W, workspace) = NULL THEN W
    ELSE [W EXCEPT !.view_info[workspace].bsp_root_entry.last_focused =
                        container]

\* an internal node created with the split kind ignored
bsp_node_internal_create_vertical(parent, px, py, width, height, split) ==
    [FreeNode EXCEPT !.type = "INTERNAL", !.enabled = TRUE,
                     !.split_type = "VERTICAL", !.parent = parent,
                     !.x = px, !.y = py, !.width = width, !.height = height,
                     !.left_wfact = <<1, 2>>]

\* the node record bsp_node_internal_create() fills in
bsp_node_internal_create(parent, px, py, width, height, split) ==
    [FreeNode EXCEPT !.type = "INTERNAL", !.enabled = TRUE,
                     !.split_type = split, !.parent = parent,
                     !.x = px, !.y = py, !.width = width, !.height = height,
                     !.left_wfact = <<1, 2>>]

\* the node record bsp_node_leaf_create() fills in
bsp_node_leaf_create(parent, container) ==
    [FreeNode EXCEPT !.type = "LEAF", !.container = container,
                     !.enabled = TRUE, !.parent = parent]

_bsp_insert_toplevel(W, workspace, sibling, new) ==
    IF sibling = NULL \/ ~W.cont[sibling].alive THEN Crash(W)
    ELSE
    LET left == W.cont[sibling].bsp_node IN
    IF Dangling(W, left) THEN Crash(W)
    ELSE
    LET L     == W.nodes[left]
        split == IF L.width >= L.height THEN "VERTICAL" ELSE "HORIZONTAL"
        ua    == W.usable_area
        parent_node == calloc_node(W)
        is_root == left = W.view_info[workspace].bsp_root_entry.root
        PN0   == bsp_node_internal_create(L.parent, L.x, L.y, L.width,
                                          L.height, split)
        PN    == IF is_root
                 THEN [PN0 EXCEPT !.x = ua.x, !.y = ua.y, !.width = ua.width,
                                  !.height = ua.height, !.left_wfact = <<1, 2>>]
                 ELSE PN0
        W1    == [W EXCEPT !.nodes[parent_node] = PN,
                           !.view_info[workspace].bsp_root_entry.root =
                               IF is_root THEN parent_node ELSE @]
        right == calloc_node(W1)
        W1a   == [W1 EXCEPT !.nodes[right] =
                                bsp_node_leaf_create(parent_node, new),
                            !.cont[new].bsp_node = right]
        attach(W2) ==
            LET grandparent_node == W2.nodes[parent_node].parent IN
            IF grandparent_node = NULL THEN W2
            ELSE IF Dangling(W2, grandparent_node) THEN Crash(W2)
            ELSE IF W2.nodes[grandparent_node].left = left
            THEN [W2 EXCEPT !.nodes[grandparent_node].left = parent_node]
            ELSE IF W2.nodes[grandparent_node].right = left
            THEN [W2 EXCEPT !.nodes[grandparent_node].right = parent_node]
            ELSE Crash(W2)
    IN
    bsp_node_enable(
        attach([bsp_node_reparent(W1a, parent_node, left) EXCEPT
                    !.nodes[parent_node].left = left,
                    !.nodes[parent_node].right = right]),
        right)

bsp_insert_container(W, new, workspace) ==
    IF W.crashed THEN W
    ELSE IF W.cont[new].bsp_node # NULL THEN Crash(W)
    ELSE
    LET focused(W3) ==
            IF W3.crashed THEN W3
            ELSE [W3 EXCEPT
                    !.view_info[workspace].bsp_root_entry.last_focused = new]
        first(W1, node) ==
            bsp_update_root(
                bsp_entry_init(
                    [W1 EXCEPT !.nodes[node] = bsp_node_leaf_create(NULL, new),
                               !.cont[new].bsp_node = node],
                    workspace, node),
                W1.cont[new].workspace)
        insert(W0) ==
            IF bsp_entry_get(W0, workspace) = NULL
            THEN first(W0, calloc_node(W0))
            ELSE _bsp_insert_toplevel(
                     W0, workspace,
                     W0.view_info[workspace].bsp_root_entry.last_focused, new)
    IN focused(insert([W EXCEPT !.cont[new].state = @ \ {"FLOATING"}]))

bsp_remove_container(W, container) ==
    LET workspace == W.cont[container].workspace
        leaf      == W.cont[container].bsp_node
        entry     == W.view_info[workspace].bsp_root_entry
    IN
    IF W.crashed THEN W
    ELSE IF bsp_entry_get(W, workspace) = NULL THEN Crash(W)
    ELSE IF leaf = entry.root
    THEN bsp_update_root(
             [bsp_node_destroy(bsp_entry_fini(W, workspace), leaf) EXCEPT
                  !.cont[container].bsp_node = NULL],
             workspace)
    ELSE IF Dangling(W, leaf) \/ Dangling(W, W.nodes[leaf].parent)
    THEN Crash(W)
    ELSE
    LET parent_node  == W.nodes[leaf].parent
        sibling_node == bsp_node_get_sibling(W, parent_node, leaf)
        closest      == find_closes_leaf_sibling(W, leaf)
        unlink(W2) ==
            [bsp_node_destroy(bsp_node_destroy(W2, parent_node), leaf) EXCEPT
                 !.cont[container].bsp_node = NULL]
        detach(W1) ==
            IF parent_node = entry.root
            THEN bsp_update_root(
                     unlink(bsp_node_reparent(
                         [W1 EXCEPT !.view_info[workspace].bsp_root_entry.root =
                                        sibling_node],
                         NULL, sibling_node)),
                     workspace)
            ELSE
            LET grandparent_node == W1.nodes[parent_node].parent IN
            IF Dangling(W1, grandparent_node) THEN Crash(W1)
            ELSE IF /\ W1.nodes[grandparent_node].left # parent_node
                    /\ W1.nodes[grandparent_node].right # parent_node
            THEN Crash(W1)
            ELSE bsp_update_node(
                     unlink(bsp_node_reparent(
                         IF W1.nodes[grandparent_node].left = parent_node
                         THEN [W1 EXCEPT !.nodes[grandparent_node].left =
                                             sibling_node]
                         ELSE [W1 EXCEPT !.nodes[grandparent_node].right =
                                             sibling_node],
                         grandparent_node, sibling_node)),
                     grandparent_node)
    IN
    IF entry.last_focused = container /\ closest = NULL THEN Crash(W)
    ELSE IF Dangling(W, sibling_node) THEN Crash(W)
    ELSE detach(IF entry.last_focused = container
                THEN [W EXCEPT
                        !.view_info[workspace].bsp_root_entry.last_focused =
                            W.nodes[closest].container]
                ELSE W)

bsp_toggle_split(W, node0) ==
    IF W.crashed \/ node0 = NULL THEN W
    ELSE IF Dangling(W, node0) THEN Crash(W)
    ELSE
    LET node == IF W.nodes[node0].type = "LEAF"
                THEN W.nodes[node0].parent ELSE node0
    IN
    IF Dangling(W, node) THEN Crash(W)
    ELSE bsp_update_node(
             [W EXCEPT !.nodes[node].split_type =
                           IF @ = "VERTICAL" THEN "HORIZONTAL"
                           ELSE "VERTICAL"],
             node)

\* ------------------------------------------------------ lists and tags
\* wl_list_insert(&list, elm): elm becomes the head of the list
wl_list_insert(list, elm) == <<elm>> \o list

\* wl_list_remove(elm)
wl_list_remove(list, elm) == SelectSeq(list, LAMBDA e : e # elm)

InList(list, elm) == \E i \in 1..Len(list) : list[i] = elm

\* the bit positions (from pos on) that are set in the integer n: tag
\* bitfields are kept as the set of their set bit positions
RECURSIVE TagBits(_, _)
TagBits(n, pos) ==
    IF n = 0 THEN {}
    ELSE (IF n % 2 = 1 THEN {pos} ELSE {}) \cup TagBits(n \div 2, pos + 1)

\* ---------------------------------------------------------- visibility
\* children holds the toplevels of the container's scene tree from the top
\* down; toplevels is the wl_list of the container
cwc_container_get_front_toplevel(W, c) ==
    IF W.cont[c].children = <<>> THEN NULL ELSE Head(W.cont[c].children)

\* cwc_container_is_visible() without the test of a zero active_workspace
\* or active_tag
cwc_container_is_visible_nozero(W, c) ==
    IF cwc_container_is_sticky(W, c) THEN TRUE
    ELSE IF cwc_container_is_minimized(W, c) THEN FALSE
    ELSE \/ W.ostate.active_workspace = W.cont[c].workspace
         \/ W.ostate.active_tag \cap W.cont[c].tag # {}

cwc_container_is_visible(W, c) ==
    IF cwc_container_is_sticky(W, c) THEN TRUE
    ELSE IF \/ W.ostate.active_workspace = 0
            \/ W.ostate.active_tag = {}
            \/ cwc_container_is_minimized(W, c)
    THEN FALSE
    ELSE \/ W.ostate.active_workspace = W.cont[c].workspace
         \/ W.ostate.active_tag \cap W.cont[c].tag # {}

cwc_container_is_visible_in_workspace(W, c, workspace) ==
    IF \/ W.ostate.active_workspace = 0
       \/ W.ostate.active_tag = {}
       \/ cwc_container_is_minimized(W, c)
    THEN FALSE
    ELSE workspace = W.cont[c].workspace

cwc_toplevel_is_unmanaged(W, t) == W.top[t].unmanaged

cwc_toplevel_is_visible(W, t) ==
    /\ W.top[t].container # NULL
    /\ cwc_container_is_visible(W, W.top[t].container)
    /\ cwc_container_get_front_toplevel(W, W.top[t].container) = t

cwc_output_is_current_layout_bsp(W) ==
    cwc_output_get_current_view_info(W).layout_mode = "BSP"

cwc_toplevel_is_tileable(W, t) ==
    /\ cwc_toplevel_is_visible(W, t)
    /\ ~cwc_container_is_floating(W, W.top[t].container)
    /\ ~cwc_container_is_fullscreen(W, W.top[t].container)
    /\ ~cwc_container_is_maximized(W, W.top[t].container)
    /\ ~cwc_toplevel_is_unmanaged(W, t)

\* -------------------------------------------------------- keyboard focus
\* cwc_toplevel_try_from_wlr_surface(): the toplevel of a surface, or NULL
cwc_toplevel_try_from_wlr_surface(surface) ==
    IF surface[1] = "toplevel" THEN surface[2] ELSE NULL

\* focus_signal records the surfaces of the call and the signals it emitted
_notify_focus_signal(W, old_surface, new_surface) ==
    LET old == cwc_toplevel_try_from_wlr_surface(old_surface)
        new == cwc_toplevel_try_from_wlr_surface(new_surface)
        emit(W1, signals) ==
            [W1 EXCEPT !.server.focus_signal =
                           [old_surface |-> old_surface,
                            new_surface |-> new_surface,
                            emitted |-> signals]]
        container == W.top[new].container
        W2 == IF new # NULL /\ W.cont[container].bsp_node # NULL
              THEN bsp_last_focused_update(W, container)
              ELSE W
        unfocus == IF old # NULL /\ W.top[old].mapped
                   THEN {"client::unfocus"} ELSE {}
        focus   == IF new # NULL /\ W.top[new].mapped
                   THEN {"client::focus"} ELSE {}
    IN IF new # NULL /\ (container = NULL \/ ~W.cont[container].alive)
       THEN Crash(W)
       ELSE IF new # NULL /\ cwc_toplevel_is_unmanaged(W, new)
       THEN emit(W2, {})
       ELSE IF old # NULL /\ W.top[old].mapped
               /\ cwc_toplevel_is_unmanaged(W, old)
       THEN emit(W2, {})
       ELSE emit(W2, unfocus \cup focus)

\* wlr_seat_keyboard_notify_enter() through keyboard_focus_surface(), and the
\* focus_change listener it runs when the focused surface changes
RECURSIVE keyboard_focus_surface(_, _)
on_keyboard_focus_change(W, old_surface, new_surface) ==
    IF W.server.session_lock.locked
    THEN LET locker == W.server.session_lock.locker IN
         IF locker = NULL THEN Crash(W)
         ELSE IF ~W.server.lockers[locker].alive /\ W.server.freed = "trap"
         THEN Crash(W)
         ELSE IF ~W.server.lockers[locker].lock_surface THEN Crash(W)
         ELSE keyboard_focus_surface(W, LockSurface(locker))
    ELSE IF W.server.exclusive_kbd_interactive # NULL
    THEN IF /\ ~W.server.lsurf[W.server.exclusive_kbd_interactive].alive
            /\ W.server.freed = "trap"
         THEN Crash(W)
         ELSE keyboard_focus_surface(
                  W, LayerSurface(W.server.exclusive_kbd_interactive))
    ELSE _notify_focus_signal(W, old_surface, new_surface)

keyboard_focus_surface(W, surface) ==
    IF W.crashed \/ W.server.focused_surface = surface THEN W
    ELSE on_keyboard_focus_change(
             [W EXCEPT !.server.focused_surface = surface],
             W.server.focused_surface, surface)

\* cwc_toplevel_focus() that unlinks the container from the focus stack and
\* does not link it again
cwc_toplevel_focus_unlinked(W, toplevel) ==
    IF toplevel = NULL THEN keyboard_focus_surface(W, NoSurface)
    ELSE IF ToplevelSurface(toplevel) = W.server.focused_surface THEN W
    ELSE keyboard_focus_surface(
             [W EXCEPT !.ostate.focus_stack =
                           wl_list_remove(@, W.top[toplevel].container)],
             ToplevelSurface(toplevel))

cwc_toplevel_focus(W, toplevel) ==
    IF W.crashed THEN W
    ELSE IF toplevel = NULL THEN keyboard_focus_surface(W, NoSurface)
    ELSE IF ToplevelSurface(toplevel) = W.server.focused_surface THEN W
    ELSE LET container == W.top[toplevel].container
             W1 == IF ~cwc_toplevel_is_unmanaged(W, toplevel)
                   THEN [W EXCEPT !.ostate.focus_stack =
                            wl_list_insert(wl_list_remove(@, container),
                                           container)]
                   ELSE W
         IN IF container = NULL THEN Crash(W)
            ELSE keyboard_focus_surface(W1, ToplevelSurface(toplevel))

\* the front toplevel of the first container of the focus stack that is
\* managed and (when asked) visible
cwc_output_get_newest_focus_toplevel(W, visible) ==
    LET ok(c) == LET t == cwc_container_get_front_toplevel(W, c) IN
                 /\ t # NULL
                 /\ ~cwc_toplevel_is_unmanaged(W, t)
                 /\ (visible => cwc_toplevel_is_visible(W, t))
        fs == SelectSeq(W.ostate.focus_stack, ok)
    IN IF fs = <<>> THEN NULL
       ELSE cwc_container_get_front_toplevel(W, Head(fs))

cwc_output_focus_newest_focus_visible_toplevel(W) ==
    LET toplevel == cwc_output_get_newest_focus_toplevel(W, TRUE) IN
    IF W.crashed THEN W
    ELSE IF toplevel # NULL THEN cwc_toplevel_focus(W, toplevel)
    ELSE keyboard_focus_surface(W, NoSurface)

\* ---------------------------------------------------------- session lock
\* on_new_lock(): calloc() hands out an unused struct cwc_session_locker,
\* which may be memory that an earlier locker was freed from
on_new_lock(W, locker) ==
    [W EXCEPT !.server.lockers[locker] = [FreeLocker EXCEPT !.alive = TRUE]]

\* on_lock_destroy(): the listener of the lock's destroy signal frees the
\* locker and leaves the manager alone; the freed memory keeps its contents
on_lock_destroy(W, locker) ==
    [W EXCEPT !.server.lockers[locker].alive = FALSE]

\* on_new_surface(): a lock presents its surface.  When the session is locked
\* already, wlr_session_lock_v1_destroy() runs on_lock_destroy() for this very
\* locker, and the handler goes on (there is no return) to write to and read
\* from the locker and the lock surface that were just freed
on_new_surface(W, locker) ==
    LET locked == W.server.session_lock.locked
        set_state(W1) ==
            IF locked /\ W1.server.freed = "trap" THEN Crash(W1)
            ELSE keyboard_focus_surface(
                     [W1 EXCEPT !.server.session_lock =
                                    [locked |-> TRUE, locker |-> locker],
                                !.server.lockers[locker].lock_surface = TRUE,
                                !.server.lockers[locker].locked_sent = TRUE],
                     LockSurface(locker))
    IN set_state(IF locked THEN on_lock_destroy(W, locker) ELSE W)

\* on_unlock()
on_unlock(W, locker) ==
    cwc_output_focus_newest_focus_visible_toplevel(
        [W EXCEPT !.server.session_lock.locked = FALSE])

\* ----------------------------------------------------------- layer shell
\* on_new_surface() of the layer shell: calloc() and wl_list_insert() at the
\* head of server.layer_shells; pending.layer picks the scene tree
layer_on_new_surface(W, surf, layer) ==
    [W EXCEPT !.server.lsurf[surf] =
                  [FreeLayer EXCEPT !.alive = TRUE, !.layer = layer],
              !.server.layer_shells = <<surf>> \o @]

\* the tail of arrange_layers(): the first layer surface of the list that
\* asks for exclusive keyboard interactivity gets the focus and is pinned
arrange_layers(W) ==
    LET exclusive == SelectSeq(W.server.layer_shells,
                         LAMBDA l : W.server.lsurf[l].keyboard_interactive
                                        = "EXCLUSIVE")
    IN IF W.crashed THEN W
       ELSE IF exclusive # <<>>
       THEN LET W1 == keyboard_focus_surface(W, LayerSurface(exclusive[1]))
            IN IF W1.crashed THEN W1
               ELSE [W1 EXCEPT !.server.exclusive_kbd_interactive =
                                   exclusive[1]]
       ELSE W

\* on_layer_surface_commit(): the client committed the layer and the
\* keyboard interactivity it wants
on_layer_surface_commit(W, surf, layer, keyboard_interactive) ==
    arrange_layers(
        [W EXCEPT !.server.lsurf[surf].initialized = TRUE,
                  !.server.lsurf[surf].layer = layer,
                  !.server.lsurf[surf].keyboard_interactive =
                      keyboard_interactive])

\* on_layer_surface_map()
on_layer_surface_map(W, surf) ==
    LET W1 == [W EXCEPT !.server.lsurf[surf].mapped = TRUE]
        current == W.server.lsurf[surf]
    IN IF current.keyboard_interactive # "NONE"
          /\ current.layer \in {"OVERLAY", "TOP"}
       THEN arrange_layers(keyboard_focus_surface(W1, LayerSurface(surf)))
       ELSE W1

\* the commit that attaches the first buffer: the surface is mapped, and the
\* map listener runs before the commit listener
layer_surface_mapped(W, surf) ==
    LET current == W.server.lsurf[surf]
    IN on_layer_surface_commit(on_layer_surface_map(W, surf), surf,
                               current.layer, current.keyboard_interactive)

\* on_layer_surface_unmap()
on_layer_surface_unmap(W, surf) ==
    LET W1 == [W EXCEPT !.server.lsurf[surf].mapped = FALSE,
                        !.server.lsurf[surf].initialized = FALSE]
    IN IF surf = W.server.exclusive_kbd_interactive
       THEN cwc_output_focus_newest_focus_visible_toplevel(
                [W1 EXCEPT !.server.exclusive_kbd_interactive = NULL])
       ELSE W1

\* on_layer_surface_destroy(): unlinked and freed
on_layer_surface_destroy(W, surf) ==
    [W EXCEPT !.server.lsurf[surf] = FreeLayer,
              !.server.layer_shells = wl_list_remove(@, surf)]

\* the destruction of a layer surface: a mapped one is unmapped before its
\* destroy listener runs
layer_surface_destroyed(W, surf) ==
    IF W.server.lsurf[surf].mapped
    THEN on_layer_surface_destroy(on_layer_surface_unmap(W, surf), surf)
    ELSE on_layer_surface_destroy(W, surf)

\* ----------------------------------------------------- output state cache
\* cwc_output_state_create(): a new struct cwc_output_state for output name
cwc_output_state_create(W, name) ==
    [W EXCEPT !.server.output_states = @ + 1,
              !.server.outputs[name].state = W.server.output_states + 1]

cwc_output_state_save_lost(W, name) == W

\* cwc_output_state_save(): cwc_hhmap_insert() under the name of the output
cwc_output_state_save(W, name) ==
    [W EXCEPT !.server.output_state_cache[name] =
                  W.server.outputs[name].state]

\* cwc_output_state_try_restore(): the state cached under the name becomes
\* the state of the output and leaves the cache; TRUE in restored if found.
\* The containers and layer surfaces of the old output of the state are
\* given the new output
cwc_output_state_try_restore(W, name) ==
    LET state == W.server.output_state_cache[name]
        output == W.server.outputs[name].id
        old_output == W.server.old_output[name]
    IN IF state = NULL
       THEN [W EXCEPT !.server.outputs[name].state = NULL]
       ELSE [W EXCEPT !.server.outputs[name].state = state,
                      !.server.outputs[name].restored = TRUE,
                      !.server.cont_output =
                          [c \in Cont |-> IF W.cont[c].alive /\ @[c] = old_output
                                          THEN output ELSE @[c]],
                      !.server.lsurf_output =
                          [l \in LayerId |->
                              IF InList(W.server.layer_shells, l)
                                 /\ @[l] = old_output
                              THEN output ELSE @[l]],
                      !.server.output_state_cache[name] = NULL]

\* on_new_output(): a display is attached; nothing is done for it while
\* another output exists
on_new_output(W, name) ==
    LET output == W.server.outputs_allocated + 1
        W1 == cwc_output_state_try_restore(
                  [W EXCEPT !.server.outputs[name] =
                                [NoOutput EXCEPT !.attached = TRUE,
                                                 !.id = output],
                            !.server.outputs_allocated = output,
                            !.server.focused_output = output], name)
    IN IF \E other \in OutputNames : W.server.outputs[other].attached
       THEN W
       ELSE IF W1.server.outputs[name].state = NULL
       THEN cwc_output_state_create(W1, name)
       ELSE W1

\* on_output_destroy(): the state is saved and the struct cwc_output freed
on_output_destroy(W, name) ==
    [cwc_output_state_save(
         [W EXCEPT !.server.old_output[name] = W.server.outputs[name].id],
         name)
     EXCEPT !.server.outputs[name] = NoOutput]

\* the struct cwc_output that the pointer refers to is allocated
output_exists(W, output) ==
    \E name \in OutputNames :
        /\ W.server.outputs[name].attached
        /\ W.server.outputs[name].id = output

\* a read through a struct cwc_output pointer: a NULL pointer ends the
\* process, freed memory traps or still holds what the output left
output_deref(W, output) ==
    IF output = NULL THEN Crash(W)
    ELSE IF ~output_exists(W, output) /\ W.server.freed = "trap"
    THEN Crash(W)
    ELSE W

\* ----------------------------------------------------------------- hhmap
\* struct hhash_entry that is unoccupied; next is the index of the entry it
\* points to in the table, NoNext for a NULL pointer
NoNext == -1
ZeroEntry == [next |-> NoNext, hash |-> 0, data |-> NULL]

\* __recompute_limit(), built without HHMAP_AUTOMATIC_REHASH
recompute_limit(map) ==
    [map EXCEPT !.expand_at_size_exceed = (map.alloc * 3) \div 4,
                !.shrink_at_size_behind =
                    IF map.alloc \div 5 < 8 THEN 0 ELSE map.alloc \div 5]

RECURSIVE init_alloc(_, _)
init_alloc(alloc, prealloc_size) ==
    IF alloc < prealloc_size THEN init_alloc(alloc * 2, prealloc_size)
    ELSE alloc

\* cwc_hhmap_create(); hung tells that a call on the map never returned
cwc_hhmap_create(prealloc_size) ==
    LET alloc == init_alloc(8, prealloc_size)
    IN [recompute_limit(
            [size |-> 0, alloc |-> alloc, expand_at_size_exceed |-> 0,
             shrink_at_size_behind |-> 0,
             table |-> [i \in 0..(alloc - 1) |-> ZeroEntry],
             hung |-> FALSE])
        EXCEPT !.shrink_at_size_behind = 0]

\* the do-while of cwc_hhmap_lookup(): more steps than the table has entries
\* means that the chain is a cycle and the loop never ends
RECURSIVE lookup_walk(_, _, _, _, _)
lookup_walk(map, hash, prev, current, steps) ==
    IF steps > map.alloc
    THEN [current |-> NoNext, prev |-> prev, loops |-> TRUE]
    ELSE IF map.table[current].hash = hash
    THEN [current |-> current, prev |-> prev, loops |-> FALSE]
    ELSE IF map.table[current].next = NoNext
    THEN [current |-> NoNext, prev |-> current, loops |-> FALSE]
    ELSE lookup_walk(map, hash, current, map.table[current].next, steps + 1)

cwc_hhmap_lookup(map, hash) ==
    LET idx == hash % map.alloc
    IN lookup_walk(map, hash, idx, idx, 0)

\* the linear probing of __cwc_hhmap_insert(): the first entry from idx on
\* whose hash is 0; NoNext if there is none and the loop never ends
RECURSIVE probe(_, _, _)
probe(map, idx, steps) ==
    IF steps > map.alloc THEN NoNext
    ELSE IF map.table[idx].hash = 0 THEN idx
    ELSE probe(map, IF idx + 1 >= map.alloc THEN idx + 1 - map.alloc
                    ELSE idx + 1, steps + 1)

RECURSIVE __cwc_hhmap_insert(_, _, _)
RECURSIVE rehash_entries(_, _, _)
RECURSIVE __cwc_hhmap_rehash_to_size(_, _)

\* __cwc_hhmap_rehash_expand()
__cwc_hhmap_rehash_expand(map) ==
    IF map.expand_at_size_exceed >= map.size THEN map
    ELSE __cwc_hhmap_rehash_to_size(map, map.alloc * 2)

\* __cwc_hhmap_rehash_shrink()
__cwc_hhmap_rehash_shrink(map) ==
    IF map.size >= map.shrink_at_size_behind THEN map
    ELSE __cwc_hhmap_rehash_to_size(map, map.alloc \div 2)

\* __cwc_hhmap_insert(): the entry found by the probing keeps its next
__cwc_hhmap_insert(map, hash, data) ==
    LET found == cwc_hhmap_lookup(map, hash)
        current == probe(map, found.prev, 0)
        filled == [map EXCEPT !.table[current].hash = hash,
                              !.table[current].data = data,
                              !.size = @ + 1]
        linked == IF found.prev # current
                  THEN [filled EXCEPT !.table[found.prev].next = current]
                  ELSE filled
    IN IF map.hung THEN map
       ELSE IF found.loops THEN [map EXCEPT !.hung = TRUE]
       ELSE IF found.current # NoNext
       THEN [map EXCEPT !.table[found.current].data = data]
       ELSE IF current = NoNext THEN [map EXCEPT !.hung = TRUE]
       ELSE __cwc_hhmap_rehash_expand(linked)

\* the loop of __cwc_hhmap_rehash_to_size() over the old table from entry i
rehash_entries(map, old_table, i) ==
    IF i \notin DOMAIN old_table THEN map
    ELSE IF old_table[i].hash = 0 THEN rehash_entries(map, old_table, i + 1)
    ELSE rehash_entries(
             __cwc_hhmap_insert(map, old_table[i].hash, old_table[i].data),
             old_table, i + 1)

__cwc_hhmap_rehash_to_size(map, new_size) ==
    rehash_entries(
        recompute_limit(
            [map EXCEPT !.table = [i \in 0..(new_size - 1) |-> ZeroEntry],
                        !.size = 0,
                        !.alloc = new_size]),
        map.table, 0)

\* __cwc_hhmap_get(): NULL if not found; the call may never return
__cwc_hhmap_get(map, hash) ==
    LET result == cwc_hhmap_lookup(map, hash)
    IN [data |-> IF result.current # NoNext
                 THEN map.table[result.current].data ELSE NULL,
        hung |-> map.hung \/ result.loops]

\* __cwc_hhmap_remove()
__cwc_hhmap_remove(map, hash) ==
    LET found == cwc_hhmap_lookup(map, hash)
        result == found.current
        removed ==
            IF map.table[result].next = NoNext
            THEN [map EXCEPT !.table =
                      [[@ EXCEPT ![found.prev].next = NoNext]
                           EXCEPT ![result] = ZeroEntry],
                             !.size = @ - 1]
            ELSE [map EXCEPT !.table[result].hash = 0,
                             !.table[result].data = NULL,
                             !.size = @ - 1]
    IN IF map.hung THEN map
       ELSE IF found.loops THEN [map EXCEPT !.hung = TRUE]
       ELSE IF result = NoNext THEN map
       ELSE __cwc_hhmap_rehash_shrink(removed)

\* ---------------------------------------------------------------- signals
\* get_signal_entry_or_create_if_not_exist(): the entry of a name is made on
\* first use with an empty list of C callbacks and is never deleted
get_signal_entry_or_create_if_not_exist(W, name) ==
    IF W.server.signal_map[name].exists THEN W
    ELSE [W EXCEPT !.server.signal_map[name] =
                       [exists |-> TRUE, c_callbacks |-> <<>>]]

\* cwc_signal_connect(): a new struct signal_c_callback at the tail
cwc_signal_connect(W, name, callback) ==
    LET W1 == get_signal_entry_or_create_if_not_exist(W, name)
    IN [W1 EXCEPT !.server.signal_map[name].c_callbacks =
                      Append(@, callback)]

\* the position of the last element of list that is callback, 0 if none
RECURSIVE last_index_of(_, _)
last_index_of(list, callback) ==
    IF list = <<>> THEN 0
    ELSE IF list[Len(list)] = callback THEN Len(list)
    ELSE last_index_of(SubSeq(list, 1, Len(list) - 1), callback)

cwc_signal_disconnect_every(W, name, callback) ==
    LET W1 == get_signal_entry_or_create_if_not_exist(W, name)
    IN [W1 EXCEPT !.server.signal_map[name].c_callbacks =
                      SelectSeq(@, LAMBDA f : f # callback)]

\* cwc_signal_disconnect(): walks the list from the tail and destroys the
\* first struct signal_c_callback of this callback
cwc_signal_disconnect(W, name, callback) ==
    LET W1 == get_signal_entry_or_create_if_not_exist(W, name)
        list == W1.server.signal_map[name].c_callbacks
        i == last_index_of(list, callback)
    IN IF i = 0 THEN W1
       ELSE [W1 EXCEPT !.server.signal_map[name].c_callbacks =
                           SubSeq(list, 1, i - 1)
                               \o SubSeq(list, i + 1, Len(list))]

\* _emit_c(): the callbacks that are called, in the order of the calls
emit_c(sig_entry) == sig_entry.c_callbacks

\* cwc_signal_emit_c(): makes the entry when there is none
cwc_signal_emit_c(W, name) == get_signal_entry_or_create_if_not_exist(W, name)

\* the callbacks cwc_signal_emit() calls: none when the name has no entry
cwc_signal_emit_calls(W, name) ==
    IF ~W.server.signal_map[name].exists THEN <<>>
    ELSE emit_c(W.server.signal_map[name])

\* what a callback does when _emit_c() calls it: nothing, or one call of
\* cwc_signal_connect() or cwc_signal_disconnect() on the signal being emitted
Behaviours ==
    {<<"none", "none">>} \cup ({"connect", "disconnect"} \X Callbacks)

\* the longest walk of _emit_c() that is followed; a longer one is reported
\* as a walk that does not end
MaxEmitSteps == 6

\* _emit_c() with callbacks that act: wl_list_for_each calls the callback of
\* the entry at position i and reads the link of that entry afterwards to
\* find the next one.  ids names the entries of the list (next_id is the next
\* new one), called the entries whose callback was called, in order.  An
\* entry that cwc_signal_disconnect() destroyed in its own callback is read
\* after free() (read_freed).
RECURSIVE emit_walk(_, _, _, _, _, _, _, _)
emit_walk(W, name, act, i, ids, next_id, called, steps) ==
    LET list == W.server.signal_map[name].c_callbacks
    IN IF i > Len(list)
       THEN [W |-> W, ids |-> ids, called |-> called,
             read_freed |-> FALSE, loops |-> FALSE]
       ELSE IF steps >= MaxEmitSteps
       THEN [W |-> W, ids |-> ids, called |-> called,
             read_freed |-> FALSE, loops |-> TRUE]
       ELSE
         LET b == act[list[i]]
             j == IF b[1] = "disconnect" THEN last_index_of(list, b[2])
                  ELSE 0
             W1 == IF b[1] = "connect"
                   THEN cwc_signal_connect(W, name, b[2])
                   ELSE IF b[1] = "disconnect"
                   THEN cwc_signal_disconnect(W, name, b[2])
                   ELSE W
             ids1 == IF b[1] = "connect" THEN Append(ids, next_id)
                     ELSE IF j # 0
                     THEN SubSeq(ids, 1, j - 1) \o SubSeq(ids, j + 1, Len(ids))
                     ELSE ids
             next1 == IF b[1] = "connect" THEN next_id + 1 ELSE next_id
             called1 == Append(called, ids[i])
         IN IF j = i
            THEN [W |-> W1, ids |-> ids1, called |-> called1,
                  read_freed |-> TRUE, loops |-> FALSE]
            ELSE emit_walk(W1, name, act,
                           (IF j # 0 /\ j < i THEN i - 1 ELSE i) + 1,
                           ids1, next1, called1, steps + 1)

\* cwc_signal_emit_c() with callbacks that act as act says
cwc_signal_emit_c_acting(W, name, act) ==
    LET W1 == cwc_signal_emit_c(W, name)
        n == Len(W1.server.signal_map[name].c_callbacks)
    IN emit_walk(W1, name, act, 1, [k \in 1..n |-> k], n + 1, <<>>, 0)

\* ------------------------------------------------------------ key bindings
\* keybind_generate_key(): (modifiers << 32) | keysym of two 32 bit values,
\* one 64 bit key for each pair
keybind_generate_key(modifiers, keysym) == <<modifiers, keysym>>

\* the bindings keybind_kbd_register() and the Lua registration accept: a Lua
\* binding carries at least one callback
KeybindInfos ==
    {[type |-> t, on_press |-> p, on_release |-> r] :
        t \in {"LUA", "C"}, p \in BOOLEAN, r \in BOOLEAN}
    \ {[type |-> "LUA", on_press |-> FALSE, on_release |-> FALSE]}

\* keybind_kbd_register(): an existing binding of the key is replaced
keybind_kbd_register(W, modifiers, keysym, info) ==
    [W EXCEPT !.server.keybind_kbd_map[keybind_generate_key(modifiers,
                                                            keysym)] = info]

\* WLR_MODIFIER_CTRL | WLR_MODIFIER_ALT
CtrlAlt == 12

\* xkb_keysym_from_name("F<i>"): XKB_KEY_F1 is 0xffbe, the others follow
xkb_keysym_from_name_F(i) == 65469 + i

\* the binding of _chvt with args = i
ChvtInfo(i) ==
    [type |-> "C", on_press |-> TRUE, on_release |-> FALSE, args |-> i]

RECURSIVE register_common_key_from(_, _)
register_common_key_from(W, i) ==
    IF i > 12 THEN W
    ELSE register_common_key_from(
             keybind_kbd_register(W, CtrlAlt, xkb_keysym_from_name_F(i),
                                  ChvtInfo(i)),
             i + 1)

keybind_register_common_key(W) == register_common_key_from(W, 1)

\* variant: the common keys are never registered again
keybind_kbd_clear_bare(W, clear_common_key) ==
    [W EXCEPT !.server.keybind_kbd_map =
                  [k \in DOMAIN @ |-> NoBind]]

\* keybind_kbd_clear(): a new empty map, and the common keys unless they
\* are to be cleared too
keybind_kbd_clear(W, clear_common_key) ==
    LET W1 == [W EXCEPT !.server.keybind_kbd_map =
                            [k \in DOMAIN @ |-> NoBind]]
    IN IF ~clear_common_key THEN keybind_register_common_key(W1) ELSE W1

lua_isboolean(arg) == arg \in {"true", "false"}

\* only nil and false are false
lua_toboolean(arg) == arg \notin {"none", "nil", "false"}

\* luaC_kbd_clear(): arg is the first argument of the call: "none", a
\* boolean, or a value that is not a boolean
luaC_kbd_clear(W, arg) ==
    IF lua_isboolean(arg) /\ lua_toboolean(arg)
    THEN keybind_kbd_clear(W, TRUE)
    ELSE keybind_kbd_clear(W, FALSE)

\* cwc_restart_lua(): the key bindings of the old configuration go
cwc_restart_lua(W) == keybind_kbd_clear(W, FALSE)

\* __keybind_execute(): whether a binding exists, and the callbacks it ran
__keybind_execute(map, modifiers, key, press) ==
    LET info == map[keybind_generate_key(modifiers, key)] IN
    IF info.type = "NONE" THEN [handled |-> FALSE, invoked |-> {}]
    ELSE IF info.type = "LUA"
    THEN [handled |-> TRUE,
          invoked |-> IF press
                      THEN (IF info.on_press THEN {"on_press"} ELSE {})
                      ELSE (IF info.on_release THEN {"on_release"} ELSE {})]
    ELSE [handled |-> TRUE,
          invoked |-> IF press /\ info.on_press THEN {"on_press"}
                      ELSE IF info.on_release THEN {"on_release"}
                      ELSE {}]

\* variant: a release that matched a binding is withheld like a press
on_kbd_key_consumed(W, modifiers, keysym, pressed) ==
    LET run == IF W.server.session_lock.locked
               THEN [handled |-> FALSE, invoked |-> {}]
               ELSE __keybind_execute(W.server.keybind_kbd_map,
                                      modifiers, keysym, pressed)
        notify(handled) ==
            [W EXCEPT !.server.key_event =
                          [invoked |-> run.invoked,
                           notified |-> IF handled THEN Withheld
                                        ELSE W.server.focused_surface]]
    IN notify(run.handled)

\* on_kbd_key(): key_event records the callbacks that ran and the surface
\* wlr_seat_keyboard_notify_key() delivered the key to
on_kbd_key(W, modifiers, keysym, pressed) ==
    LET run == IF W.server.session_lock.locked
               THEN [handled |-> FALSE, invoked |-> {}]
               ELSE __keybind_execute(W.server.keybind_kbd_map,
                                      modifiers, keysym, pressed)
        notify(handled) ==
            [W EXCEPT !.server.key_event =
                          [invoked |-> run.invoked,
                           notified |-> IF handled THEN Withheld
                                        ELSE W.server.focused_surface]]
    IN notify(pressed /\ run.handled)

\* ------------------------------------------------------- master layout
arrange_monocle(W, toplevels) ==
    LET RECURSIVE loop(_, _)
        loop(W1, i) ==
            IF i > Len(toplevels) THEN W1
            ELSE loop(cwc_container_set_size(
                          cwc_container_set_position_gap(
                              W1, W1.top[toplevels[i]].container,
                              W1.usable_area.x, W1.usable_area.y),
                          W1.top[toplevels[i]].container,
                          W1.usable_area.width, W1.usable_area.height),
                      i + 1)
    IN loop(W, 1)

\* the rows 1 .. len - 2 of arrange_tile, toplevels[] counted from 0 as in C
RECURSIVE arrange_tile_rows(_, _, _, _, _, _)
arrange_tile_rows(W, toplevels, i, master_width, sec_width, sec_height) ==
    IF i >= Len(toplevels) - 1 THEN W
    ELSE LET container   == W.top[toplevels[i + 1]].container
             height_used == (i - 1) * sec_height
             W1 == cwc_container_set_size(W, container, sec_width, sec_height)
             W2 == cwc_container_set_position_gap(
                       W1, container, master_width,
                       height_used + W.usable_area.y)
         IN arrange_tile_rows(W2, toplevels, i + 1, master_width, sec_width,
                              sec_height)

arrange_tile(W, toplevels) ==
    LET ua           == W.usable_area
        master_state == cwc_output_get_current_view_info(W).master_state
        len          == Len(toplevels)
        first        == W.top[toplevels[1]].container
        last         == W.top[toplevels[len]].container
    IN IF len = 1
       THEN cwc_container_set_position_gap(
                cwc_container_set_size(W, first, ua.width,
                                       ua.height),
                first, ua.x, ua.y)
       ELSE LET master_width == ScaleInt(ua.width,
                                         master_state.mwfact)
                sec_width    == ua.width - master_width
                W1 == cwc_container_set_size(W, first, master_width,
                                             ua.height)
                W2 == cwc_container_set_position_gap(
                          W1, first, ua.x, ua.y)
                sec_count   == len - master_state.master_count
                sec_height  == ua.height \div sec_count
                W3 == arrange_tile_rows(W2, toplevels, 1, master_width,
                                        sec_width, sec_height)
                height_used == (len - 2) * sec_height
                W4 == cwc_container_set_size(
                          W3, last, sec_width,
                          ua.height - height_used)
            IN cwc_container_set_position_gap(
                   W4, last, master_width, height_used + ua.y)

\* the front toplevels of the output's containers that are tileable, in
\* list order
RECURSIVE tiled_visible(_, _)
tiled_visible(W, containers) ==
    IF containers = <<>> THEN <<>>
    ELSE LET front == cwc_container_get_front_toplevel(W, Head(containers))
         IN (IF cwc_toplevel_is_tileable(W, front) THEN <<front>> ELSE <<>>)
            \o tiled_visible(W, Tail(containers))

master_arrange_update(W) ==
    LET info == cwc_output_get_current_view_info(W)
        T    == tiled_visible(W, W.ostate.containers)
    IN IF W.crashed \/ info.layout_mode # "MASTER" THEN W
       ELSE IF Len(T) >= 1
       THEN IF info.master_state.current_layout = "tile"
            THEN arrange_tile(W, T)
            ELSE arrange_monocle(W, T)
       ELSE W

\* cwc_container_set_enabled(): enabled is the enabled flag of the scene
\* node of the container's tree
cwc_container_set_enabled(W, container, set) ==
    [W EXCEPT !.cont[container].enabled = set]

\* the loop of cwc_output_update_visible() over the containers of the output
RECURSIVE update_visible_from(_, _)
update_visible_from(W, list) ==
    IF list = <<>> THEN W
    ELSE update_visible_from(
             cwc_container_set_enabled(
                 W, Head(list), cwc_container_is_visible(W, Head(list))),
             Tail(list))

cwc_output_update_visible(W) ==
    IF W.crashed THEN W
    ELSE cwc_output_focus_newest_focus_visible_toplevel(
             update_visible_from(W, W.ostate.containers))

\* the switch of cwc_output_tiling_layout_update(): the layout engine that is
\* run and the workspace it arranges; master_arrange_update() takes no
\* workspace and arranges the current view
tiling_layout_engine(W, view0) ==
    LET mode == cwc_output_get_current_view_info(W).layout_mode
        view == IF view0 # 0 THEN view0 ELSE W.ostate.active_workspace
    IN IF mode = "BSP" THEN <<"BSP", view>>
       ELSE IF mode = "MASTER" THEN <<"MASTER", W.ostate.active_workspace>>
       ELSE <<"NONE", 0>>

cwc_output_tiling_layout_update(W, view0) ==
    LET engine == tiling_layout_engine(W, view0)
    IN IF W.crashed THEN W
       ELSE IF engine[1] = "BSP" THEN bsp_update_root(W, engine[2])
       ELSE IF engine[1] = "MASTER" THEN master_arrange_update(W)
       ELSE W

\* ------------------------------------------------------ container state
cwc_container_set_sticky(W, container, set) ==
    IF set
    THEN [W EXCEPT !.cont[container].state = @ \cup {"STICKY"}]
    ELSE cwc_output_update_visible(
             [W EXCEPT !.cont[container].state = @ \ {"STICKY"}])

cwc_container_set_floating(W, container, set) ==
    IF W.crashed \/ ~cwc_container_is_configure_allowed(W, container) THEN W
    ELSE IF set
    THEN LET W1 == cwc_container_restore_floating_box(W, container)
             W2 == IF W1.cont[container].bsp_node # NULL
                   THEN bsp_node_disable(W1, W1.cont[container].bsp_node)
                   ELSE W1
             W3 == [W2 EXCEPT !.cont[container].state = @ \cup {"FLOATING"}]
         IN cwc_output_tiling_layout_update(W3, W3.cont[container].workspace)
    ELSE IF cwc_container_is_floating(W, container)
    THEN LET W1 == [W EXCEPT !.cont[container].state = @ \ {"FLOATING"}]
             W2 == IF W1.cont[container].bsp_node # NULL
                   THEN bsp_node_enable(W1, W1.cont[container].bsp_node)
                   ELSE IF cwc_output_is_current_layout_bsp(W1)
                   THEN bsp_insert_container(W1, container,
                                             W1.cont[container].workspace)
                   ELSE W1
         IN cwc_output_tiling_layout_update(W2, W2.cont[container].workspace)
    ELSE W

\* set_fullscreen(true) that leaves the maximized bit alone
cwc_container_set_fullscreen_keep(W, container, set) ==
    IF set THEN [W EXCEPT !.cont[container].state = @ \cup {"FULLSCREEN"}]
    ELSE [W EXCEPT !.cont[container].state = @ \ {"FULLSCREEN"}]

cwc_container_set_fullscreen(W, container, set) ==
    LET bsp_node == W.cont[container].bsp_node IN
    IF W.crashed THEN W
    ELSE LET W2 ==
    IF set
    THEN LET W1 == [W EXCEPT !.cont[container].state =
                                 (@ \cup {"FULLSCREEN"}) \ {"MAXIMIZED"}]
         IN IF bsp_node # NULL THEN bsp_node_disable(W1, bsp_node) ELSE W1
    ELSE LET W1 == [W EXCEPT !.cont[container].state = @ \ {"FULLSCREEN"}]
         IN IF cwc_container_is_floating(W1, container)
            THEN cwc_container_restore_floating_box(W1, container)
            ELSE IF bsp_node # NULL THEN bsp_node_enable(W1, bsp_node)
            ELSE W1
    IN IF W2.crashed THEN W2
       ELSE master_arrange_update(
                all_toplevel_set_fullscreen(W2, container, set))

cwc_container_set_maximized(W, container, set) ==
    LET bsp_node == W.cont[container].bsp_node IN
    IF W.crashed THEN W
    ELSE LET W2 ==
    IF set
    THEN LET W1 == [W EXCEPT !.cont[container].state =
                                 (@ \cup {"MAXIMIZED"}) \ {"FULLSCREEN"}]
         IN IF bsp_node # NULL THEN bsp_node_disable(W1, bsp_node) ELSE W1
    ELSE LET W1 == [W EXCEPT !.cont[container].state = @ \ {"MAXIMIZED"}]
         IN IF cwc_container_is_floating(W1, container)
            THEN cwc_container_restore_floating_box(W1, container)
            ELSE IF bsp_node # NULL THEN bsp_node_enable(W1, bsp_node)
            ELSE W1
    IN IF W2.crashed THEN W2
       ELSE master_arrange_update(
                all_toplevel_set_maximized(W2, container, set))

_update_to_current_active_tag_and_worskpace(W, container) ==
    [W EXCEPT !.cont[container].tag = W.ostate.active_tag,
              !.cont[container].workspace = W.ostate.active_workspace]

cwc_container_set_minimized(W0, container, set) ==
    LET bsp_node == W0.cont[container].bsp_node
        W == [W0 EXCEPT !.cont[container].enabled = ~set]
    IN
    IF W0.crashed THEN W0
    ELSE IF set
    THEN LET W1 == [W EXCEPT !.ostate.minimized =
                                 wl_list_insert(@, container)]
             W2 == IF bsp_node # NULL THEN bsp_node_disable(W1, bsp_node)
                   ELSE W1
             W3 == [W2 EXCEPT !.cont[container].state = @ \cup {"MINIMIZED"}]
         IN master_arrange_update(
                cwc_output_focus_newest_focus_visible_toplevel(W3))
    ELSE LET W1 == [W EXCEPT !.cont[container].state = @ \ {"MINIMIZED"},
                             !.ostate.minimized = wl_list_remove(@, container)]
             W2 == IF bsp_node # NULL THEN bsp_node_enable(W1, bsp_node)
                   ELSE W1
         IN IF W2.crashed THEN W2
            ELSE master_arrange_update(
                     _update_to_current_active_tag_and_worskpace(
                         W2, container))

cwc_container_to_center(W, container) ==
    IF ~cwc_container_is_configure_allowed(W, container) THEN W
    ELSE LET ua == W.usable_area
             x0 == (ua.width \div 2) - (W.cont[container].width \div 2)
             y0 == (ua.height \div 2) - (W.cont[container].height \div 2)
         IN cwc_container_set_position(W, container,
                IF x0 < ua.x THEN ua.x ELSE x0,
                IF y0 < ua.y THEN ua.y ELSE y0)

cwc_container_move_to_tag(W, container, tagidx) ==
    IF W.crashed \/ W.cont[container].tag = TagBits(tagidx, 1) THEN W
    ELSE LET W1 == IF W.cont[container].bsp_node # NULL
                   THEN bsp_remove_container(W, container) ELSE W
             W2 == [W1 EXCEPT !.cont[container].tag = {tagidx},
                              !.cont[container].workspace = tagidx]
             W3 == IF ~W2.crashed /\ W2.view_info[tagidx].layout_mode = "BSP"
                   THEN bsp_insert_container(W2, container, tagidx) ELSE W2
             W4 == cwc_output_tiling_layout_update(W3, tagidx)
         IN cwc_output_update_visible(W4)

\* ---------------------------------------------------------------- output
\* one round of the loop of insert_tiled_toplevel_to_bsp_tree()
tiled_toplevel_to_bsp_tree(W, container, view) ==
    IF \/ W.crashed
       \/ ~cwc_container_is_visible_in_workspace(W, container, view)
       \/ cwc_container_is_floating(W, container)
       \/ W.cont[container].bsp_node # NULL
    THEN W
    ELSE LET W1 == bsp_insert_container(W, container, view) IN
         IF /\ ~W1.crashed
            /\ \/ cwc_container_is_maximized(W1, container)
               \/ cwc_container_is_fullscreen(W1, container)
         THEN bsp_node_disable(W1, W1.cont[container].bsp_node)
         ELSE W1

RECURSIVE insert_tiled_toplevel_to_bsp_tree(_, _, _)
insert_tiled_toplevel_to_bsp_tree(W, containers, view) ==
    IF containers = <<>> THEN W
    ELSE insert_tiled_toplevel_to_bsp_tree(
             tiled_toplevel_to_bsp_tree(W, Head(containers), view),
             Tail(containers), view)

RECURSIVE restore_floating_box_for_all(_, _)
restore_floating_box_for_all(W, containers) ==
    IF containers = <<>> THEN W
    ELSE LET c == Head(containers)
             W1 == IF /\ cwc_container_is_floating(W, c)
                      /\ cwc_container_is_visible(W, c)
                      /\ cwc_container_is_configure_allowed(W, c)
                   THEN cwc_container_restore_floating_box(W, c)
                   ELSE W
         IN restore_floating_box_for_all(W1, Tail(containers))

cwc_output_set_layout_mode(W, mode) ==
    LET W1 == [W EXCEPT
                 !.view_info[W.ostate.active_workspace].layout_mode = mode]
        W2 == IF mode = "BSP"
              THEN insert_tiled_toplevel_to_bsp_tree(
                       W1, W1.ostate.containers, W1.ostate.active_workspace)
              ELSE IF mode = "FLOATING"
              THEN restore_floating_box_for_all(W1, W1.ostate.containers)
              ELSE W1
    IN IF W.crashed THEN W ELSE cwc_output_tiling_layout_update(W2, 0)

\* CLAMP(factor, 0.1, 0.9) on fractions
ClampFactor(factor) ==
    IF factor[1] * 10 < factor[2] THEN <<1, 10>>
    ELSE IF factor[1] * 10 > 9 * factor[2] THEN <<9, 10>>
    ELSE factor

cwc_output_set_mwfact(W, workspace0, factor) ==
    LET ws0       == IF workspace0 = 0 THEN W.ostate.active_workspace
                     ELSE workspace0
        workspace == IF ws0 < 1 THEN 1
                     ELSE IF ws0 > MAX_WORKSPACE THEN MAX_WORKSPACE ELSE ws0
    IN cwc_output_tiling_layout_update(
           [W EXCEPT !.view_info[workspace].master_state.mwfact =
                         ClampFactor(factor)],
           workspace)

cwc_output_set_useless_gaps(W, workspace0, gaps_width) ==
    LET ws0       == IF workspace0 = 0 THEN W.ostate.active_workspace
                     ELSE workspace0
        workspace == IF ws0 < 1 THEN 1
                     ELSE IF ws0 > MAX_WORKSPACE THEN MAX_WORKSPACE ELSE ws0
    IN cwc_output_tiling_layout_update(
           [W EXCEPT !.view_info[workspace].useless_gaps =
                         IF gaps_width < 0 THEN 0 ELSE gaps_width],
           workspace)

\* the layout list is circular: tile, monocle
cwc_output_set_strategy_idx(W, idx) ==
    LET info == cwc_output_get_current_view_info(W)
        odd  == idx % 2 = 1
        next == IF info.master_state.current_layout = "tile"
                THEN "monocle" ELSE "tile"
    IN IF info.layout_mode # "MASTER" THEN W
       ELSE master_arrange_update(
                IF odd
                THEN [W EXCEPT !.view_info[W.ostate.active_workspace]
                                   .master_state.current_layout = next]
                ELSE W)

\* 1 << (view - 1) is a shift by -1 for view 0: the shift count wraps to 31,
\* or the result is 0, as the build has it (server.shift)
cwc_output_set_view_only(W, view) ==
    LET W1 == [W EXCEPT !.ostate.active_tag =
                            IF view >= 1 THEN {view}
                            ELSE IF W.server.shift = "wrap" THEN {32}
                            ELSE {},
                        !.ostate.active_workspace = view]
    IN IF W.crashed THEN W
       ELSE cwc_output_update_visible(cwc_output_tiling_layout_update(W1, 0))

\* ------------------------------------------------------- tags and views
\* luaC_screen_toggle_tag(): active_tag ^= 1 << (tag - 1)
luaC_screen_toggle_tag(W, tag) ==
    cwc_output_tiling_layout_update(
        cwc_output_update_visible(
            [W EXCEPT !.ostate.active_tag = (@ \ {tag}) \cup ({tag} \ @)]),
        0)

\* luaC_screen_set_active_tag(): the bitfield is stored as given
luaC_screen_set_active_tag(W, newtag) ==
    cwc_output_update_visible([W EXCEPT !.ostate.active_tag = newtag])

\* luaC_screen_set_max_general_workspace(): MAX(MIN(newmax, MAX_WORKSPACE), 1)
luaC_screen_set_max_general_workspace(W, newmax) ==
    LET min == IF newmax < MAX_WORKSPACE THEN newmax ELSE MAX_WORKSPACE
    IN [W EXCEPT !.ostate.max_general_workspace =
                     IF min > 1 THEN min ELSE 1]

\* luaC_client_set_tag(): the bitfield is stored as given
luaC_client_set_tag(W, container, tag) ==
    cwc_output_update_visible([W EXCEPT !.cont[container].tag = tag])

\* luaC_client_toggle_tag(): container->tag ^= 1 << (tag - 1)
luaC_client_toggle_tag(W, container, tag) ==
    cwc_output_update_visible(
        [W EXCEPT !.cont[container].tag = (@ \ {tag}) \cup ({tag} \ @)])

\* ------------------------------------------------- container life cycle
\* calloc(1, sizeof(struct cwc_container)): the lowest free container id
calloc_container(W) ==
    CHOOSE c \in Cont :
        /\ ~W.cont[c].alive
        /\ \A d \in Cont : d < c => W.cont[d].alive

\* what the client asked for before its first commit; decide_should_tiled()
\* looks at the requests in this order and acts on the first that is set
MapRequests == {"fullscreen", "maximized", "minimized", "float", "tiled"}

\* cwc_toplevel_get_geometry() of a newly mapped surface
ToplevelGeometry == [width |-> 640, height |-> 480]

decide_should_tiled(W, request, container) ==
    IF request = "fullscreen"
    THEN cwc_container_set_fullscreen(W, container, TRUE)
    ELSE IF request = "maximized"
    THEN cwc_container_set_maximized(W, container, TRUE)
    ELSE IF request = "minimized"
    THEN cwc_container_set_minimized(W, container, TRUE)
    ELSE IF request = "float"
    THEN cwc_container_to_center(
             cwc_container_set_floating(W, container, TRUE), container)
    ELSE LET mode == W.view_info[W.cont[container].workspace].layout_mode IN
         IF mode = "FLOATING" THEN W
         ELSE LET W1 == IF mode = "BSP"
                        THEN bsp_insert_container(
                                 W, container, W.cont[container].workspace)
                        ELSE master_arrange_update(W)
              IN IF W1.crashed THEN W1
                 ELSE [W1 EXCEPT !.cont[container].state = @ \ {"FLOATING"}]

cwc_container_init(W, toplevel, request) ==
    LET cont_ == calloc_container(W)
        geom  == ToplevelGeometry
        C0 == [FreeCont EXCEPT
                 !.alive = TRUE,
                 !.width = geom.width, !.height = geom.height,
                 !.floating_box = [ZeroBox EXCEPT !.width = geom.width,
                                                  !.height = geom.height],
                 !.tag = IF W.ostate.active_tag = {} THEN {1}
                         ELSE W.ostate.active_tag,
                 !.workspace = IF W.ostate.active_workspace = 0 THEN 1
                               ELSE W.ostate.active_workspace,
                 !.toplevels = <<toplevel>>,
                 !.children = <<toplevel>>,
                 !.enabled = TRUE]
        W1 == [W EXCEPT !.cont[cont_] = C0, !.top[toplevel].container = cont_,
                        !.server.cont_output[cont_] = W.server.focused_output]
    IN
    IF cwc_toplevel_is_unmanaged(W1, toplevel)
    THEN [W1 EXCEPT !.cont[cont_].state = @ \cup {"UNMANAGED"}]
    ELSE decide_should_tiled(
             [W1 EXCEPT !.ostate.containers = wl_list_insert(@, cont_),
                        !.ostate.focus_stack = wl_list_insert(@, cont_)],
             request, cont_)

cwc_container_insert_toplevel(W, c, toplevel) ==
    IF W.crashed THEN W
    ELSE IF \/ cwc_container_is_unmanaged(W, c)
            \/ cwc_toplevel_is_unmanaged(W, toplevel)
    THEN W
    ELSE cwc_container_set_size(
             [W EXCEPT !.top[toplevel].container = c,
                       !.cont[c].toplevels = wl_list_insert(@, toplevel),
                       !.cont[c].children = <<toplevel>> \o @],
             c, W.cont[c].width, W.cont[c].height)

\* ---------------------------------------------------------------- cursor
MIN_WIDTH == 20

Max(a, b) == IF a >= b THEN a ELSE b

\* the geometry the client commits for the size it was last configured
\* with: all_toplevel_set_size() asks for MAX(w - outside_width, MIN_WIDTH)
cwc_toplevel_get_geometry(W, toplevel) ==
    LET container == W.top[toplevel].container
    IN [x |-> 0, y |-> 0,
        width |-> Max(W.cont[container].width, MIN_WIDTH),
        height |-> Max(W.cont[container].height, MIN_WIDTH)]

cwc_toplevel_can_enter_interactive(W, toplevel) ==
    /\ cwc_container_is_floating(W, W.top[toplevel].container)
    /\ ~cwc_container_is_fullscreen(W, W.top[toplevel].container)
    /\ ~cwc_container_is_maximized(W, W.top[toplevel].container)
    /\ ~cwc_toplevel_is_unmanaged(W, toplevel)

start_interactive_move(W, toplevel) ==
    LET cursor == W.server.cursor
        node   == W.cont[W.top[toplevel].container]
    IN IF W.crashed THEN W
       ELSE IF W.top[toplevel].container = NULL THEN Crash(W)
       ELSE IF ~cwc_toplevel_can_enter_interactive(W, toplevel) THEN W
       ELSE [W EXCEPT !.server.cursor =
                          [cursor EXCEPT !.grab_x = cursor.x - node.x,
                                         !.grab_y = cursor.y - node.y,
                                         !.grabbed_toplevel = toplevel,
                                         !.state = "MOVE"]]

\* a fraction num / den with den > 0 against the decimal a / b with b > 0
FracGE(n, a, b) == n[1] * b >= a * n[2]
FracLE(n, a, b) == n[1] * b <= a * n[2]

\* nx = sx / (width / 2) - 1 and ny = sy / (height / 2) - 1 as fractions
surface_coord_to_normdevice_coord(geo_box, sx, sy) ==
    [nx |-> <<2 * sx - geo_box.width, geo_box.width>>,
     ny |-> <<2 * sy - geo_box.height, geo_box.height>>]

decide_which_edge_to_resize(sx, sy, geo_box) ==
    LET n  == surface_coord_to_normdevice_coord(geo_box, sx, sy)
        nx == n.nx
        ny == n.ny
        corner == {IF FracGE(nx, -5, 100) THEN "RIGHT" ELSE "LEFT",
                   IF FracGE(ny, -5, 100) THEN "BOTTOM" ELSE "TOP"}
    IN IF FracGE(nx, -3, 10) /\ FracLE(nx, 3, 10)
       THEN (IF FracLE(ny, -4, 10) THEN {"TOP"}
             ELSE IF FracGE(ny, 6, 10) THEN {"BOTTOM"}
             ELSE corner)
       ELSE IF FracGE(ny, -3, 10) /\ FracLE(ny, 3, 10)
       THEN (IF FracLE(nx, -4, 10) THEN {"LEFT"}
             ELSE IF FracGE(nx, 6, 10) THEN {"RIGHT"}
             ELSE corner)
       ELSE corner

\* the toplevel whose container is under the layout point (lx, ly), the
\* most recently focused one first; NULL when there is none
cwc_toplevel_at_with_deep_check(W, lx, ly) ==
    LET under == SelectSeq(W.ostate.focus_stack,
                     LAMBDA c :
                         /\ cwc_container_is_visible(W, c)
                         /\ W.cont[c].x <= lx
                         /\ lx < W.cont[c].x + W.cont[c].width
                         /\ W.cont[c].y <= ly
                         /\ ly < W.cont[c].y + W.cont[c].height)
    IN IF under = <<>> THEN NULL
       ELSE cwc_container_get_front_toplevel(W, under[1])

\* toplevel0 = NULL: the toplevel under the pointer; edges0 = {}: no edges
\* given (0), they are decided from sx, sy, which only
\* cwc_toplevel_at_with_deep_check() writes
start_interactive_resize(W, toplevel0, edges0) ==
    LET cursor   == W.server.cursor
        toplevel == IF toplevel0 # NULL THEN toplevel0
                    ELSE cwc_toplevel_at_with_deep_check(W, cursor.x, cursor.y)
        node     == W.cont[W.top[toplevel].container]
        sx       == IF toplevel0 # NULL THEN W.server.uninit[1]
                    ELSE cursor.x - node.x
        sy       == IF toplevel0 # NULL THEN W.server.uninit[2]
                    ELSE cursor.y - node.y
        geo_box  == cwc_toplevel_get_geometry(W, toplevel)
        grab(edges) ==
            LET border_x == (node.x + geo_box.x)
                    + (IF "RIGHT" \in edges THEN geo_box.width ELSE 0)
                border_y == (node.y + geo_box.y)
                    + (IF "BOTTOM" \in edges THEN geo_box.height ELSE 0)
            IN [W EXCEPT !.server.cursor =
                          [cursor EXCEPT
                              !.grabbed_toplevel = toplevel,
                              !.grab_x = cursor.x - border_x,
                              !.grab_y = cursor.y - border_y,
                              !.grab_geobox =
                                  [geo_box EXCEPT !.x = @ + node.x,
                                                  !.y = @ + node.y],
                              !.resize_edges = edges,
                              !.state = "RESIZE",
                              !.last_resize_time_msec = W.server.now]]
    IN IF W.crashed THEN W
       ELSE IF toplevel = NULL THEN W
       ELSE IF W.top[toplevel].container = NULL THEN Crash(W)
       ELSE IF ~cwc_toplevel_can_enter_interactive(W, toplevel) THEN W
       ELSE grab(IF edges0 # {} THEN edges0
                 ELSE decide_which_edge_to_resize(sx, sy, geo_box))

luaC_pointer_resize_interactive(W) == start_interactive_resize(W, NULL, {})

process_cursor_move(W) ==
    LET cursor == W.server.cursor
    IN cwc_container_set_position(
           W, W.top[cursor.grabbed_toplevel].container,
           cursor.x - cursor.grab_x, cursor.y - cursor.grab_y)

\* the time between two configures of a resize, in milliseconds
interval_msec(refresh) ==
    IF refresh # 0 THEN 1000 \div Max(refresh \div 1000, 1) ELSE 8

\* variant: the time of the configure is not recorded
schedule_resize_unstamped(W, toplevel, new_box) ==
    LET delta_t_msec == W.server.now - W.server.cursor.last_resize_time_msec
        W1 == IF delta_t_msec > interval_msec(W.server.refresh)
              THEN cwc_toplevel_set_size_surface(
                       wlr_scene_node_set_position(
                           W, W.top[toplevel].container,
                           new_box.x, new_box.y),
                       toplevel, new_box.width, new_box.height)
              ELSE W
    IN [W1 EXCEPT !.server.cursor.pending_box = new_box]

schedule_resize(W, toplevel, new_box) ==
    LET delta_t_msec == W.server.now - W.server.cursor.last_resize_time_msec
        W1 == IF delta_t_msec > interval_msec(W.server.refresh)
              THEN [cwc_toplevel_set_size_surface(
                        wlr_scene_node_set_position(
                            W, W.top[toplevel].container,
                            new_box.x, new_box.y),
                        toplevel, new_box.width, new_box.height)
                    EXCEPT !.server.cursor.last_resize_time_msec =
                               W.server.now]
              ELSE W
    IN [W1 EXCEPT !.server.cursor.pending_box = new_box]

process_cursor_resize(W) ==
    LET cursor   == W.server.cursor
        toplevel == cursor.grabbed_toplevel
        border_x == cursor.x - cursor.grab_x
        border_y == cursor.y - cursor.grab_y
        left0    == cursor.grab_geobox.x
        right0   == cursor.grab_geobox.x + cursor.grab_geobox.width
        top0     == cursor.grab_geobox.y
        bottom0  == cursor.grab_geobox.y + cursor.grab_geobox.height
        new_top  == IF "TOP" \in cursor.resize_edges
                    THEN (IF border_y >= bottom0 THEN bottom0 - 1
                          ELSE border_y)
                    ELSE top0
        new_bottom == IF "TOP" \notin cursor.resize_edges
                         /\ "BOTTOM" \in cursor.resize_edges
                      THEN (IF border_y <= new_top THEN new_top + 1
                            ELSE border_y)
                      ELSE bottom0
        new_left == IF "LEFT" \in cursor.resize_edges
                    THEN (IF border_x >= right0 THEN right0 - 1
                          ELSE border_x)
                    ELSE left0
        new_right == IF "LEFT" \notin cursor.resize_edges
                        /\ "RIGHT" \in cursor.resize_edges
                     THEN (IF border_x <= new_left THEN new_left + 1
                           ELSE border_x)
                     ELSE right0
        geo_box  == cwc_toplevel_get_geometry(W, toplevel)
        new_box  == [x |-> new_left - geo_box.x, y |-> new_top - geo_box.y,
                     width |-> new_right - new_left,
                     height |-> new_bottom - new_top]
    IN schedule_resize(W, toplevel, new_box)

\* the pointer moves to (px, py): wlr_cursor_move() by the difference
process_cursor_motion(W, px, py) ==
    LET W1 == [W EXCEPT !.server.cursor.x = px, !.server.cursor.y = py]
    IN IF W.crashed THEN W
       ELSE IF W.server.cursor.state = "MOVE" THEN process_cursor_move(W1)
       ELSE IF W.server.cursor.state = "RESIZE"
       THEN process_cursor_resize(W1)
       ELSE W1

stop_interactive(W) ==
    LET cursor == W.server.cursor
        W1 == IF cursor.state = "RESIZE"
              THEN cwc_toplevel_set_size_surface(
                       cwc_container_set_position(
                           W, W.top[cursor.grabbed_toplevel].container,
                           cursor.pending_box.x, cursor.pending_box.y),
                       cursor.grabbed_toplevel,
                       cursor.pending_box.width, cursor.pending_box.height)
              ELSE W
    IN IF W.crashed \/ cursor.state = "NORMAL" THEN W
       ELSE [W1 EXCEPT !.server.cursor.state = "NORMAL",
                       !.server.cursor.grabbed_toplevel = NULL]

on_request_move(W, toplevel) ==
    start_interactive_move(cwc_toplevel_focus(W, toplevel), toplevel)

on_request_resize(W, toplevel, edges) ==
    start_interactive_resize(cwc_toplevel_focus(W, toplevel), toplevel, edges)

\* luaC_container_set_geometry(): box starts as the container's box and
\* takes the fields of the table; the size set is (box.x, box.y)
luaC_container_set_geometry(W, container, box) ==
    cwc_container_set_size(
        cwc_container_set_position(W, container, box.x, box.y),
        container, box.x, box.y)

_destroy_container(W, container) ==
    LET W1 == IF W.server.insert_marked = container
              THEN [W EXCEPT !.server.insert_marked = NULL] ELSE W
        W2 == IF ~cwc_container_is_unmanaged(W1, container)
              THEN [W1 EXCEPT
                      !.ostate.containers = wl_list_remove(@, container),
                      !.ostate.focus_stack = wl_list_remove(@, container)]
              ELSE W1
        unlink(W4) ==
            IF W4.crashed THEN W4
            ELSE [W4 EXCEPT !.ostate.minimized = wl_list_remove(@, container),
                            !.cont[container] = FreeCont]
        update(W3) ==
            unlink(IF ~W3.crashed
                      /\ W3.view_info[W3.cont[container].workspace]
                             .layout_mode = "MASTER"
                   THEN cwc_output_tiling_layout_update(
                            W3, W3.cont[container].workspace)
                   ELSE W3)
    IN update(IF W2.cont[container].bsp_node # NULL
              THEN bsp_remove_container(W2, container) ELSE W2)

_clear_container_stuff_in_toplevel(W, toplevel) ==
    LET c == W.top[toplevel].container IN
    IF c = NULL THEN Crash(W)
    ELSE [W EXCEPT !.cont[c].toplevels = wl_list_remove(@, toplevel),
                   !.cont[c].children = wl_list_remove(@, toplevel),
                   !.top[toplevel].container = NULL]

cwc_container_remove_toplevel(W, toplevel) ==
    LET cont_ == W.top[toplevel].container
        W1    == _clear_container_stuff_in_toplevel(W, toplevel)
    IN IF W1.crashed THEN W1
       ELSE IF Len(W1.cont[cont_].toplevels) # 0 THEN W1
       ELSE _destroy_container(W1, cont_)

\* the toplevels of source and target change places
cwc_container_swap(W, source, target) ==
    IF W.crashed \/ source = target THEN W
    ELSE LET s_tops == W.cont[source].toplevels
             t_tops == W.cont[target].toplevels
             W1 == [W EXCEPT
                      !.cont[source].toplevels = t_tops,
                      !.cont[target].toplevels = s_tops,
                      !.cont[source].children = W.cont[target].children,
                      !.cont[target].children = W.cont[source].children,
                      !.top = [t \in Top |->
                                 IF InList(s_tops, t)
                                 THEN [@[t] EXCEPT !.container = target]
                                 ELSE IF InList(t_tops, t)
                                 THEN [@[t] EXCEPT !.container = source]
                                 ELSE @[t]]]
         IN cwc_container_set_size(
                cwc_container_set_size(W1, target, W1.cont[target].width,
                                       W1.cont[target].height),
                source, W1.cont[source].width, W1.cont[source].height)

\* cwc_container_set_front_toplevel(): the scene node of the toplevel is put
\* right below the popup tree, above every other toplevel of the container
cwc_container_set_front_toplevel(W, toplevel) ==
    IF W.crashed \/ toplevel = NULL THEN W
    ELSE LET container == W.top[toplevel].container
         IN cwc_container_set_size(
                [W EXCEPT !.cont[container].children =
                              <<toplevel>> \o wl_list_remove(@, toplevel)],
                container, W.cont[container].width,
                W.cont[container].height)

Reverse(list) == [i \in 1..Len(list) |-> list[Len(list) + 1 - i]]

\* the position of toplevel in the toplevels list of its container
link_position(list, toplevel) ==
    CHOOSE i \in 1..Len(list) : list[i] = toplevel

\* the toplevel a walk of the ring stops at: visited are the toplevels the
\* loop passes (the list head of the container is skipped) and count the
\* number it breaks at; a loop that ends without a break leaves t at the
\* toplevel it started from
ring_walk(toplevel, visited, count) ==
    IF count <= Len(visited) THEN visited[count] ELSE toplevel

\* _focusnext(): wl_list_for_each_reverse from the link of the toplevel
_focusnext(W, toplevel, step) ==
    LET list == W.cont[W.top[toplevel].container].toplevels
        i == link_position(list, toplevel)
        visited == Reverse(SubSeq(list, 1, i - 1))
                       \o Reverse(SubSeq(list, i + 1, Len(list)))
        t == ring_walk(toplevel, visited, step)
    IN cwc_toplevel_focus(cwc_container_set_front_toplevel(W, t), t)

\* _focusprev(): wl_list_for_each from the link of the toplevel; step is
\* negative and counted up to zero
_focusprev(W, toplevel, step) ==
    LET list == W.cont[W.top[toplevel].container].toplevels
        i == link_position(list, toplevel)
        visited == SubSeq(list, i + 1, Len(list)) \o SubSeq(list, 1, i - 1)
        t == ring_walk(toplevel, visited, 0 - step)
    IN cwc_toplevel_focus(cwc_container_set_front_toplevel(W, t), t)

cwc_container_focusidx(W, container, idx) ==
    IF W.crashed \/ idx = 0 THEN W
    ELSE LET top_ == cwc_container_get_front_toplevel(W, container)
         IN IF top_ = NULL THEN Crash(W)
            ELSE IF idx > 0 THEN _focusnext(W, top_, idx)
            ELSE _focusprev(W, top_, idx)

\* ------------------------------------------------------------- toplevels
on_surface_map(W, toplevel, unmanaged, request) ==
    LET W1 == [W EXCEPT !.top[toplevel] =
                          [FreeTop EXCEPT !.mapped = TRUE,
                                          !.unmanaged = unmanaged],
                        !.ostate.toplevels =
                            IF unmanaged THEN @
                            ELSE wl_list_insert(@, toplevel)]
    IN IF W1.server.insert_marked # NULL /\ ~unmanaged
       THEN cwc_container_insert_toplevel(W1, W1.server.insert_marked,
                                          toplevel)
       ELSE cwc_container_init(W1, toplevel, request)

on_surface_unmap(W, toplevel) ==
    LET W0 == IF W.server.cursor.grabbed_toplevel = toplevel
              THEN stop_interactive(W) ELSE W
        W1 == [W0 EXCEPT !.ostate.toplevels =
                            IF cwc_toplevel_is_unmanaged(W, toplevel) THEN @
                            ELSE wl_list_remove(@, toplevel),
                         !.top[toplevel].mapped = FALSE]
        W2 == cwc_container_remove_toplevel(W1, toplevel)
    IN IF W2.crashed THEN W2
       ELSE [W2 EXCEPT !.top[toplevel] = FreeTop]

\* the shape of the tree below a node: for every position (the path of
\* left/right turns from the root) the node's kind, container, split kind and
\* left_wfact
RECURSIVE Shape(_, _, _)
Shape(W, n, path) ==
    IF n = NULL THEN {}
    ELSE LET N == W.nodes[n] IN
         {<<path, N.type, N.container, N.split_type, N.left_wfact>>}
         \cup (IF N.type = "INTERNAL"
               THEN Shape(W, N.left, Append(path, "L"))
                    \cup Shape(W, N.right, Append(path, "R"))
               ELSE {})

TreeShape(W, workspace) ==
    Shape(W, W.view_info[workspace].bsp_root_entry.root, <<>>)

\* ============================================================ SpecBsp
\* The BSP interface (bsp.h) driven directly on one tiled workspace.
BspWorkspace == 1

BspEntry == view_info[BspWorkspace].bsp_root_entry

\* struct cwc_server after server_init(): nothing marked, nothing focused,
\* the session unlocked
\* freed is what a read of freed memory does in this build: it traps, or
\* it returns what the memory held ("stale")
InitServer ==
    [insert_marked |-> NULL,
     focused_surface |-> NoSurface,
     session_lock |-> [locked |-> FALSE, locker |-> NULL],
     lockers |-> [l \in Locker |-> FreeLocker],
     freed |-> "trap",
     shift |-> "wrap",
     exclusive_kbd_interactive |-> NULL,
     layer_shells |-> <<>>,
     signal_map |-> [name \in Signals |-> NoSignalEntry],
     hhmap |-> NULL,
     output_state_cache |-> [name \in OutputNames |-> NULL],
     outputs |-> [name \in OutputNames |-> NoOutput],
     output_states |-> 0,
     \* struct cwc_output pointers: the outputs allocated so far are numbered
     outputs_allocated |-> 0,
     focused_output |-> NULL,
     old_output |-> [name \in OutputNames |-> NULL],
     cont_output |-> [c \in Cont |-> NULL],
     lsurf_output |-> [l \in LayerId |-> NULL],
     lsurf |-> [l \in LayerId |-> FreeLayer],
     keybind_kbd_map |-> [k \in Modifiers \X Keysyms |-> NoBind],
     key_event |-> [invoked |-> {}, notified |-> NoSurface],
     cursor |-> [state |-> "NORMAL", grabbed_toplevel |-> NULL,
                 x |-> 0, y |-> 0, grab_x |-> 0, grab_y |-> 0,
                 grab_geobox |-> ZeroBox, resize_edges |-> {},
                 pending_box |-> ZeroBox,
                 last_resize_time_msec |-> 0],
     \* CLOCK_MONOTONIC in milliseconds, wlr_output.refresh in mHz
     focus_signal |-> [old_surface |-> NoSurface, new_surface |-> NoSurface,
                       emitted |-> {}],
     now |-> 0,
     refresh |-> 0,
     \* what an uninitialized double sx, sy on the stack holds
     uninit |-> <<0, 0>>]

\* no insert is waiting to be undone
NoOp == [op |-> "none", c |-> NULL, state |-> {}, prev |-> NULL]

NoUndo == [c |-> NULL, shape |-> {}, last_focused |-> NULL, done |-> FALSE]

InitBsp ==
    /\ nodes = [n \in Node |-> FreeNode]
    /\ cont = [c \in Cont |->
                 [FreeCont EXCEPT !.alive = TRUE, !.state = {"FLOATING"},
                                  !.enabled = TRUE,
                                  !.workspace = BspWorkspace,
                                  !.tag = {BspWorkspace},
                                  !.toplevels = IF c \in Top THEN <<c>>
                                                ELSE <<>>,
                                  !.children = IF c \in Top THEN <<c>>
                                               ELSE <<>>]]
    /\ view_info = [w \in ViewIndex |->
                      [layout_mode |-> IF w = BspWorkspace THEN "BSP"
                                       ELSE "FLOATING",
                       useless_gaps |-> 0,
                       master_state |-> DefaultMasterState,
                       bsp_root_entry |->
                           [root |-> NULL, last_focused |-> NULL]]]
    /\ ostate = [active_tag |-> {BspWorkspace},
                 active_workspace |-> BspWorkspace,
                 containers |-> [i \in 1..NumCont |-> i],
                 focus_stack |-> [i \in 1..NumCont |-> i],
                 minimized |-> <<>>,
                 toplevels |-> [i \in 1..NumCont |-> i],
                 max_general_workspace |-> 9]
    /\ usable_area \in UsableAreas
    /\ top = [t \in Top |->
                IF t \in Cont
                THEN [FreeTop EXCEPT !.mapped = TRUE, !.container = t]
                ELSE FreeTop]
    /\ server = InitServer
    /\ events = 0
    /\ crashed = FALSE
    /\ bsp_trace = [pure |-> TRUE, seq |-> <<>>, ops |-> 0, undo |-> NoUndo]
    /\ last_op = NoOp

\* the history after an operation other than insert
Disturbed ==
    [pure |-> FALSE, seq |-> <<>>, ops |-> bsp_trace.ops + 1, undo |-> NoUndo]

BspInsert(c) ==
    /\ ~crashed
    /\ cont[c].bsp_node = NULL
    /\ \A d \in Cont : d < c => cont[d].bsp_node # NULL
    /\ Commit(bsp_insert_container(World, c, cont[c].workspace))
    /\ bsp_trace' =
         [bsp_trace EXCEPT
            !.seq = IF bsp_trace.pure THEN Append(@, c) ELSE @,
            !.undo = [c |-> c,
                      shape |-> TreeShape(World, cont[c].workspace),
                      last_focused |-> BspEntry.last_focused,
                      done |-> FALSE]]
    /\ UNCHANGED <<usable_area, events, last_op>>

BspRemove(c) ==
    /\ ~crashed
    /\ bsp_trace.ops < MaxOps
    /\ cont[c].bsp_node # NULL
    /\ Commit(bsp_remove_container(World, c))
    /\ bsp_trace' =
         [Disturbed EXCEPT
            !.pure = view_info'[BspWorkspace].bsp_root_entry.root = NULL,
            !.undo = IF bsp_trace.undo.c = c /\ ~bsp_trace.undo.done
                     THEN [bsp_trace.undo EXCEPT !.done = TRUE]
                     ELSE NoUndo]
    /\ UNCHANGED <<usable_area, events, last_op>>

BspEnable(c) ==
    /\ ~crashed
    /\ bsp_trace.ops < MaxOps
    /\ cont[c].bsp_node # NULL
    /\ Commit(bsp_node_enable(World, cont[c].bsp_node))
    /\ bsp_trace' = Disturbed
    /\ UNCHANGED <<usable_area, events, last_op>>

BspDisable(c) ==
    /\ ~crashed
    /\ bsp_trace.ops < MaxOps
    /\ cont[c].bsp_node # NULL
    /\ Commit(bsp_node_disable(World, cont[c].bsp_node))
    /\ bsp_trace' = Disturbed
    /\ UNCHANGED <<usable_area, events, last_op>>

BspToggleSplit(c) ==
    /\ ~crashed
    /\ bsp_trace.ops < MaxOps
    /\ Commit(bsp_toggle_split(World, cont[c].bsp_node))
    /\ bsp_trace' = Disturbed
    /\ UNCHANGED <<usable_area, events, last_op>>

BspFocus(c) ==
    /\ ~crashed
    /\ bsp_trace.ops < MaxOps
    /\ cont[c].bsp_node # NULL
    /\ Commit(bsp_last_focused_update(World, c))
    /\ bsp_trace' = Disturbed
    /\ UNCHANGED <<usable_area, events, last_op>>

NextBsp ==
    \/ \E c \in Cont : BspInsert(c)
    \/ \E c \in Cont : BspRemove(c)
    \/ \E c \in Cont : BspEnable(c)
    \/ \E c \in Cont : BspDisable(c)
    \/ \E c \in Cont : BspToggleSplit(c)
    \/ \E c \in Cont : BspFocus(c)

SpecBsp == InitBsp /\ [][NextBsp]_vars

\* ---------------------------------------------------- toggle_split alone
\* The tree driven by insert, remove and the toggle_split method of a client;
\* last_op keeps the nodes and the leaf of the container before the toggle.
MaxSplitEvents == 6

CanHandleSplit == ~crashed /\ events < MaxSplitEvents

SplitHandle(W, op, c, node, before) ==
    /\ Commit(W)
    /\ events' = events + 1
    /\ last_op' = [op |-> op, c |-> c, state |-> {}, prev |-> before,
                   node |-> node]
    /\ UNCHANGED <<usable_area, bsp_trace>>

SplitInsert(c) ==
    /\ CanHandleSplit
    /\ cont[c].bsp_node = NULL
    /\ \A d \in Cont : d < c => cont[d].bsp_node # NULL
    /\ SplitHandle(bsp_insert_container(World, c, cont[c].workspace),
                   "insert", c, NULL, NULL)

SplitRemove(c) ==
    /\ CanHandleSplit
    /\ cont[c].bsp_node # NULL
    /\ SplitHandle(bsp_remove_container(World, c), "remove", c, NULL, NULL)

\* luaC_client_toggle_split(): bsp_toggle_split(toplevel->container->bsp_node)
luaC_client_toggle_split(W, toplevel) ==
    bsp_toggle_split(W, W.cont[W.top[toplevel].container].bsp_node)

SplitToggleSplit(t) ==
    /\ CanHandleSplit
    /\ top[t].container # NULL
    /\ SplitHandle(luaC_client_toggle_split(World, t), "toggle_split",
                   top[t].container, cont[top[t].container].bsp_node, nodes)

NextSplit ==
    \/ \E c \in Cont : SplitInsert(c)
    \/ \E c \in Cont : SplitRemove(c)
    \/ \E t \in Top : SplitToggleSplit(t)

SpecSplit == InitBsp /\ [][NextSplit]_vars

\* ============================================================= SpecWM
\* The window manager driven by its events: surfaces map and unmap, and the
\* configuration (Lua API, client requests) changes container state, tags,
\* the view and the layout mode.
LayoutModes == {"FLOATING", "BSP"}

InitTrace == [pure |-> TRUE, seq |-> <<>>, ops |-> 0, undo |-> NoUndo]

InitWM ==
    /\ nodes = [n \in Node |-> FreeNode]
    /\ cont = [c \in Cont |-> FreeCont]
    /\ top = [t \in Top |-> FreeTop]
    /\ view_info = [w \in ViewIndex |->
                      [layout_mode |-> "FLOATING",
                       useless_gaps |-> 0,
                       master_state |-> DefaultMasterState,
                       bsp_root_entry |->
                           [root |-> NULL, last_focused |-> NULL]]]
    /\ ostate = [active_tag |-> {1}, active_workspace |-> 1,
                 containers |-> <<>>, focus_stack |-> <<>>,
                 minimized |-> <<>>, toplevels |-> <<>>,
                 max_general_workspace |-> 9]
    /\ usable_area \in UsableAreas
    /\ server = InitServer
    /\ events = 0
    /\ crashed = FALSE
    /\ bsp_trace = InitTrace
    /\ last_op = NoOp

\* one event handled: the world the handler leaves behind
Handle(W, op, c) ==
    /\ Commit(W)
    /\ events' = events + 1
    /\ last_op' = [op |-> op, c |-> c,
                   state |-> IF c = NULL THEN {} ELSE cont[c].state,
                   prev |-> NULL]
    /\ UNCHANGED <<usable_area, bsp_trace>>

CanHandle == ~crashed /\ events < MaxEvents

Managed(c) == cont[c].alive /\ "UNMANAGED" \notin cont[c].state

WmMap(t, unmanaged, request) ==
    /\ CanHandle
    /\ ~top[t].mapped
    /\ \A u \in Top : u < t => top[u].mapped
    /\ \E c \in Cont : ~cont[c].alive
    /\ unmanaged => request = "tiled"
    /\ Handle(on_surface_map(World, t, unmanaged, request), "map", NULL)

WmUnmap(t) ==
    /\ CanHandle
    /\ top[t].mapped
    /\ Handle(on_surface_unmap(World, t), "unmap", top[t].container)

WmSetFullscreen(c, set) ==
    /\ CanHandle
    /\ cont[c].alive
    /\ Handle(cwc_container_set_fullscreen(World, c, set),
              IF set THEN "set_fullscreen" ELSE "unset_fullscreen", c)

WmSetMaximized(c, set) ==
    /\ CanHandle
    /\ cont[c].alive
    /\ Handle(cwc_container_set_maximized(World, c, set),
              IF set THEN "set_maximized" ELSE "unset_maximized", c)

WmSetMinimized(c, set) ==
    /\ CanHandle
    /\ cont[c].alive
    /\ Handle(cwc_container_set_minimized(World, c, set),
              IF set THEN "set_minimized" ELSE "unset_minimized", c)

WmSetFloating(c, set) ==
    /\ CanHandle
    /\ cont[c].alive
    /\ Handle(cwc_container_set_floating(World, c, set),
              IF set THEN "set_floating" ELSE "unset_floating", c)

WmMoveToTag(c, tagidx) ==
    /\ CanHandle
    /\ cont[c].alive
    /\ Handle(cwc_container_move_to_tag(World, c, tagidx), "move_to_tag", c)

WmSetViewOnly(view) ==
    /\ CanHandle
    /\ Handle(cwc_output_set_view_only(World, view), "set_view_only", NULL)

WmSetLayoutMode(mode) ==
    /\ CanHandle
    /\ Handle(cwc_output_set_layout_mode(World, mode), "set_layout_mode", NULL)

WmFocus(t) ==
    /\ CanHandle
    /\ top[t].mapped
    /\ Handle(cwc_toplevel_focus(World, t), "focus", top[t].container)

WmSwap(source, target) ==
    /\ CanHandle
    /\ Managed(source) /\ Managed(target)
    /\ source < target
    /\ Handle(cwc_container_swap(World, source, target), "swap", source)

WmSetInsertMark(c) ==
    /\ CanHandle
    /\ c # NULL => cont[c].alive
    /\ c # server.insert_marked
    /\ Handle([World EXCEPT !.server.insert_marked = c], "insert_mark", c)

NextWM ==
    \/ \E t \in Top, u \in BOOLEAN, r \in MapRequests : WmMap(t, u, r)
    \/ \E t \in Top : WmUnmap(t)
    \/ \E c \in Cont, set \in BOOLEAN : WmSetFullscreen(c, set)
    \/ \E c \in Cont, set \in BOOLEAN : WmSetMaximized(c, set)
    \/ \E c \in Cont, set \in BOOLEAN : WmSetMinimized(c, set)
    \/ \E c \in Cont, set \in BOOLEAN : WmSetFloating(c, set)
    \/ \E c \in Cont, i \in Workspace : WmMoveToTag(c, i)
    \/ \E v \in Workspace : WmSetViewOnly(v)
    \/ \E m \in LayoutModes : WmSetLayoutMode(m)
    \/ \E t \in Top : WmFocus(t)
    \/ \E a \in Cont, b \in Cont : WmSwap(a, b)
    \/ \E c \in Cont \cup {NULL} : WmSetInsertMark(c)

SpecWM == InitWM /\ [][NextWM]_vars

(***************************************************************************)
(* SpecLock: the session lock, the keyboard focus and the key bindings.   *)
(* Lock clients create locks, present lock surfaces, unlock and go away;  *)
(* toplevels are mapped, focused and clicked; a layer surface is mapped   *)
(* and unmapped; keys are pressed and released.  The configuration        *)
(* registers its key bindings when it is loaded, before any other event.  *)
(***************************************************************************)
InitLock ==
    /\ nodes = [n \in Node |-> FreeNode]
    /\ cont = [c \in Cont |-> FreeCont]
    /\ top = [t \in Top |-> FreeTop]
    /\ view_info = [w \in ViewIndex |->
                      [layout_mode |-> "FLOATING",
                       useless_gaps |-> 0,
                       master_state |-> DefaultMasterState,
                       bsp_root_entry |->
                           [root |-> NULL, last_focused |-> NULL]]]
    /\ ostate = [active_tag |-> {1}, active_workspace |-> 1,
                 containers |-> <<>>, focus_stack |-> <<>>,
                 minimized |-> <<>>, toplevels |-> <<>>,
                 max_general_workspace |-> 9]
    /\ usable_area = [x |-> 0, y |-> 0, width |-> 1600, height |-> 900]
    /\ server \in {[InitServer EXCEPT !.freed = f] : f \in {"trap", "stale"}}
    /\ events = 0
    /\ crashed = FALSE
    /\ bsp_trace = InitTrace
    /\ last_op = NoOp

\* what the session lock was when the event arrived: locked, and held by a
\* locker that is still allocated and was sent locked
LockState ==
    IF ~server.session_lock.locked THEN {}
    ELSE IF /\ server.lockers[server.session_lock.locker].alive
            /\ server.lockers[server.session_lock.locker].locked_sent
    THEN {"LOCKED", "HELD"}
    ELSE {"LOCKED"}

LockHandle(W, op, c, prev) ==
    /\ Commit(W)
    /\ events' = events + 1
    /\ last_op' = [op |-> op, c |-> c, state |-> LockState, prev |-> prev]
    /\ UNCHANGED <<usable_area, bsp_trace>>

CanHandleLock == ~crashed /\ events < MaxLockEvents

\* cwc.kbd.bind() in the configuration
LockBind(modifiers, keysym, info) ==
    /\ ~crashed
    /\ last_op.op \in {"none", "bind"}
    /\ Cardinality({k \in Modifiers \X Keysyms :
                       server.keybind_kbd_map[k] # NoBind}) < MaxBinds
    /\ Commit(keybind_kbd_register(World, modifiers, keysym, info))
    /\ last_op' = [op |-> "bind", c |-> keysym, state |-> {},
                   prev |-> modifiers]
    /\ UNCHANGED <<usable_area, bsp_trace, events>>

\* a toplevel is mapped and the client::map handler of the configuration
\* focuses it
LockMap(t) ==
    /\ CanHandleLock
    /\ ~top[t].mapped
    /\ \A u \in Top : u < t => top[u].mapped
    /\ \E c \in Cont : ~cont[c].alive
    /\ LockHandle(cwc_toplevel_focus(
                      on_surface_map(World, t, FALSE, "tiled"), t),
                  "map", t, NULL)

\* a client asks for the focus: on_request_move(), on_request_resize() and
\* the focus method of the Lua client object
LockClientFocus(t) ==
    /\ CanHandleLock
    /\ top[t].mapped
    /\ LockHandle(cwc_toplevel_focus(World, t), "focus", t, NULL)

\* on_cursor_button(): a button is pressed with the cursor on a toplevel
LockCursorButton(t) ==
    /\ CanHandleLock
    /\ top[t].mapped
    /\ LockHandle(cwc_toplevel_focus(World, t), "click", t, NULL)

LockLayerMap(keyboard_interactive) ==
    /\ CanHandleLock
    /\ ~server.lsurf[1].alive
    /\ LockHandle(layer_surface_mapped(
                      on_layer_surface_commit(
                          layer_on_new_surface(World, 1, "TOP"),
                          1, "TOP", keyboard_interactive),
                      1),
                  "layer_map", NULL, NULL)

LockLayerUnmap ==
    /\ CanHandleLock
    /\ server.lsurf[1].mapped
    /\ LockHandle(layer_surface_destroyed(World, 1),
                  "layer_unmap", NULL, NULL)

LockNewLock(l) ==
    /\ CanHandleLock
    /\ ~server.lockers[l].alive
    /\ LockHandle(on_new_lock(World, l), "new_lock", l, NULL)

\* a lock presents the surface of the output, once
LockNewSurface(l) ==
    /\ CanHandleLock
    /\ server.lockers[l].alive
    /\ ~server.lockers[l].lock_surface
    /\ LockHandle(on_new_surface(World, l), "new_surface", l,
                  server.session_lock.locker)

\* unlock_and_destroy of a lock that was sent locked: the unlock signal and
\* then the destroy signal
LockUnlock(l) ==
    /\ CanHandleLock
    /\ server.lockers[l].alive
    /\ server.lockers[l].locked_sent
    /\ LockHandle(on_lock_destroy(on_unlock(World, l), l), "unlock", l,
                  server.session_lock.locker)

\* the lock resource goes away without an unlock: the client destroyed it
\* or disconnected
LockDestroy(l) ==
    /\ CanHandleLock
    /\ server.lockers[l].alive
    /\ LockHandle(on_lock_destroy(World, l), "lock_destroy", l,
                  server.session_lock.locker)

LockKey(modifiers, keysym, pressed) ==
    /\ CanHandleLock
    /\ LockHandle(on_kbd_key(World, modifiers, keysym, pressed),
                  IF pressed THEN "key_press" ELSE "key_release",
                  keysym, modifiers)

NextLock ==
    \/ \E m \in Modifiers, k \in Keysyms, i \in KeybindInfos : LockBind(m, k, i)
    \/ \E t \in Top : LockMap(t)
    \/ \E t \in Top : LockClientFocus(t)
    \/ \E t \in Top : LockCursorButton(t)
    \/ \E ki \in {"NONE", "EXCLUSIVE", "ON_DEMAND"} : LockLayerMap(ki)
    \/ LockLayerUnmap
    \/ \E l \in Locker : LockNewLock(l)
    \/ \E l \in Locker : LockNewSurface(l)
    \/ \E l \in Locker : LockUnlock(l)
    \/ \E l \in Locker : LockDestroy(l)
    \/ \E m \in Modifiers, k \in Keysyms, p \in BOOLEAN : LockKey(m, k, p)

SpecLock == InitLock /\ [][NextLock]_vars

\* the same events over a shorter run
MaxKeyEvents == 3

CanHandleKey == events < MaxKeyEvents

NextKey ==
    \/ \E m \in Modifiers, k \in Keysyms, i \in KeybindInfos :
           CanHandleKey /\ LockBind(m, k, i)
    \/ \E t \in Top : CanHandleKey /\ LockMap(t)
    \/ \E t \in Top : CanHandleKey /\ LockClientFocus(t)
    \/ \E t \in Top : CanHandleKey /\ LockCursorButton(t)
    \/ \E ki \in {"NONE", "EXCLUSIVE", "ON_DEMAND"} :
           CanHandleKey /\ LockLayerMap(ki)
    \/ CanHandleKey /\ LockLayerUnmap
    \/ \E l \in Locker : CanHandleKey /\ LockNewLock(l)
    \/ \E l \in Locker : CanHandleKey /\ LockNewSurface(l)
    \/ \E l \in Locker : CanHandleKey /\ LockUnlock(l)
    \/ \E l \in Locker : CanHandleKey /\ LockDestroy(l)
    \/ \E m \in Modifiers, k \in Keysyms, p \in BOOLEAN :
           CanHandleKey /\ LockKey(m, k, p)

SpecKey == InitLock /\ [][NextKey]_vars

(***************************************************************************)
(* SpecTag: tags, workspaces and visibility.  Toplevels are mapped; the   *)
(* configuration moves containers between tags, writes and toggles the    *)
(* tags of containers and of the output, switches the view, changes the   *)
(* layout mode and max_general_workspace, and sets the minimized and      *)
(* sticky state.                                                          *)
(***************************************************************************)
InitTag ==
    /\ nodes = [n \in Node |-> FreeNode]
    /\ cont = [c \in Cont |-> FreeCont]
    /\ top = [t \in Top |-> FreeTop]
    /\ view_info = [w \in ViewIndex |->
                      [layout_mode |-> "FLOATING",
                       useless_gaps |-> 0,
                       master_state |-> DefaultMasterState,
                       bsp_root_entry |->
                           [root |-> NULL, last_focused |-> NULL]]]
    /\ ostate = [active_tag |-> {1}, active_workspace |-> 1,
                 containers |-> <<>>, focus_stack |-> <<>>,
                 minimized |-> <<>>, toplevels |-> <<>>,
                 max_general_workspace |-> 9]
    /\ usable_area = [x |-> 0, y |-> 0, width |-> 1600, height |-> 900]
    /\ server \in {[InitServer EXCEPT !.shift = f] : f \in {"wrap", "zero"}}
    /\ events = 0
    /\ crashed = FALSE
    /\ bsp_trace = InitTrace
    /\ last_op = NoOp

TagHandle(W, op, c, prev) ==
    /\ Commit(W)
    /\ events' = events + 1
    /\ last_op' = [op |-> op, c |-> c,
                   state |-> IF c = NULL THEN {} ELSE cont[c].state,
                   prev |-> prev]
    /\ UNCHANGED <<usable_area, bsp_trace>>

CanHandleTag == ~crashed /\ events < MaxTagEvents

TagMap(t) ==
    /\ CanHandleTag
    /\ ~top[t].mapped
    /\ \A u \in Top : u < t => top[u].mapped
    /\ \E c \in Cont : ~cont[c].alive
    /\ TagHandle(on_surface_map(World, t, FALSE, "tiled"), "map", NULL, t)

TagMoveToTag(c, tagidx) ==
    /\ CanHandleTag
    /\ cont[c].alive
    /\ TagHandle(cwc_container_move_to_tag(World, c, tagidx),
                 "move_to_tag", c, tagidx)

TagClientSetTag(c, tag) ==
    /\ CanHandleTag
    /\ cont[c].alive
    /\ TagHandle(luaC_client_set_tag(World, c, tag), "client_set_tag", c,
                 NULL)

TagClientToggleTag(c, tag) ==
    /\ CanHandleTag
    /\ cont[c].alive
    /\ TagHandle(luaC_client_toggle_tag(World, c, tag), "client_toggle_tag",
                 c, tag)

TagScreenToggleTag(tag) ==
    /\ CanHandleTag
    /\ TagHandle(luaC_screen_toggle_tag(World, tag), "toggle_tag", NULL, tag)

TagSetActiveTag(newtag) ==
    /\ CanHandleTag
    /\ TagHandle(luaC_screen_set_active_tag(World, newtag), "set_active_tag",
                 NULL, NULL)

TagSetViewOnly(view) ==
    /\ CanHandleTag
    /\ TagHandle(cwc_output_set_view_only(World, view), "view_only", NULL,
                 view)

TagSetMaxGeneralWorkspace(newmax) ==
    /\ CanHandleTag
    /\ TagHandle(luaC_screen_set_max_general_workspace(World, newmax),
                 "set_max_general_workspace", NULL, newmax)

TagSetLayoutMode(mode) ==
    /\ CanHandleTag
    /\ TagHandle(cwc_output_set_layout_mode(World, mode), "set_layout_mode",
                 NULL, NULL)

TagSetMinimized(c, set) ==
    /\ CanHandleTag
    /\ cont[c].alive
    /\ TagHandle(cwc_container_set_minimized(World, c, set),
                 IF set THEN "set_minimized" ELSE "unset_minimized", c, NULL)

TagSetSticky(c, set) ==
    /\ CanHandleTag
    /\ cont[c].alive
    /\ TagHandle(cwc_container_set_sticky(World, c, set),
                 IF set THEN "set_sticky" ELSE "unset_sticky", c, NULL)

NextTag ==
    \/ \E t \in Top : TagMap(t)
    \/ \E c \in Cont, i \in Workspace : TagMoveToTag(c, i)
    \/ \E c \in Cont, tag \in SUBSET Workspace : TagClientSetTag(c, tag)
    \/ \E c \in Cont, i \in Workspace : TagClientToggleTag(c, i)
    \/ \E i \in Workspace : TagScreenToggleTag(i)
    \/ \E tag \in SUBSET Workspace : TagSetActiveTag(tag)
    \/ \E v \in ViewIndex : TagSetViewOnly(v)
    \/ \E n \in {-1, 1, 2, 10000} : TagSetMaxGeneralWorkspace(n)
    \/ \E m \in LayoutModes : TagSetLayoutMode(m)
    \/ \E c \in Cont, set \in BOOLEAN : TagSetMinimized(c, set)
    \/ \E c \in Cont, set \in BOOLEAN : TagSetSticky(c, set)

SpecTag == InitTag /\ [][NextTag]_vars

\* ============================================================ SpecTile
\* The master/stack layout: toplevels map and unmap on an output whose
\* usable area may start away from the origin (a panel on the left or top),
\* and the layout mode, strategy and master width factor change.
TileAreas ==
    { [x |-> 0, y |-> 0, width |-> 1920, height |-> 1080],
      [x |-> 40, y |-> 30, width |-> 1001, height |-> 707] }

TileModes   == {"FLOATING", "MASTER"}
TileFactors == {<<1, 4>>, <<1, 2>>, <<3, 4>>, <<1, 1>>}

InitTile ==
    /\ nodes = [n \in Node |-> FreeNode]
    /\ cont = [c \in Cont |-> FreeCont]
    /\ top = [t \in Top |-> FreeTop]
    /\ view_info = [w \in ViewIndex |->
                      [layout_mode |-> "FLOATING",
                       useless_gaps |-> 0,
                       master_state |-> DefaultMasterState,
                       bsp_root_entry |->
                           [root |-> NULL, last_focused |-> NULL]]]
    /\ ostate = [active_tag |-> {1}, active_workspace |-> 1,
                 containers |-> <<>>, focus_stack |-> <<>>,
                 minimized |-> <<>>, toplevels |-> <<>>,
                 max_general_workspace |-> 9]
    /\ usable_area \in TileAreas
    /\ server = InitServer
    /\ events = 0
    /\ crashed = FALSE
    /\ bsp_trace = InitTrace
    /\ last_op = NoOp

TileSetMwfact(factor) ==
    /\ CanHandle
    /\ Handle(cwc_output_set_mwfact(World, 0, factor), "set_mwfact", NULL)

TileSetStrategyIdx(idx) ==
    /\ CanHandle
    /\ Handle(cwc_output_set_strategy_idx(World, idx), "set_strategy", NULL)

NextTile ==
    \/ \E t \in Top, r \in {"tiled", "float"} : WmMap(t, FALSE, r)
    \/ \E t \in Top : WmUnmap(t)
    \/ \E m \in TileModes : WmSetLayoutMode(m)
    \/ \E f \in TileFactors : TileSetMwfact(f)
    \/ \E idx \in {-1, 1} : TileSetStrategyIdx(idx)
    \/ \E c \in Cont, set \in BOOLEAN : WmSetFullscreen(c, set)
    \/ \E c \in Cont, set \in BOOLEAN : WmSetFloating(c, set)

SpecTile == InitTile /\ [][NextTile]_vars

\* ========================================================== SpecCursor
\* Interactive move and resize: toplevels map on a floating-layout output,
\* clients ask for a move or a resize, the pointer moves, the button is
\* released, and scripts change the container state and geometry.
MaxCursorEvents == 6
CursorTops      == 2

\* pointer positions
CursorPoints == {<<500, 300>>, <<120, 190>>, <<1100, 600>>}
ResizeEdges  == {{"LEFT", "TOP"}, {"RIGHT", "BOTTOM"}}
ScriptBoxes  == {[x |-> 100, y |-> 100], [x |-> 5, y |-> 30]}

\* milliseconds between two events: none, or more than the 8 ms interval
CursorDelays == {0, 9}

\* clock_gettime(CLOCK_MONOTONIC) has moved on by dt milliseconds
clock_advance(W, dt) == [W EXCEPT !.server.now = @ + dt]

InitCursor ==
    /\ nodes = [n \in Node |-> FreeNode]
    /\ cont = [c \in Cont |-> FreeCont]
    /\ top = [t \in Top |-> FreeTop]
    /\ view_info = [w \in ViewIndex |->
                      [layout_mode |-> "FLOATING",
                       useless_gaps |-> 0,
                       master_state |-> DefaultMasterState,
                       bsp_root_entry |->
                           [root |-> NULL, last_focused |-> NULL]]]
    /\ ostate = [active_tag |-> {1}, active_workspace |-> 1,
                 containers |-> <<>>, focus_stack |-> <<>>,
                 minimized |-> <<>>, toplevels |-> <<>>,
                 max_general_workspace |-> 9]
    /\ usable_area = [x |-> 0, y |-> 0, width |-> 1600, height |-> 900]
    /\ server = InitServer
    /\ events = 0
    /\ crashed = FALSE
    /\ bsp_trace = InitTrace
    /\ last_op = NoOp

\* one event handled; prev keeps the cursor and box the box of container c
\* as they were before the event; fresh tells that a resize grab was taken
\* and the pointer has not moved since
CursorHandle(W, op, c) ==
    /\ Commit(W)
    /\ events' = events + 1
    /\ last_op' = [op |-> op, c |-> c,
                   state |-> IF c = NULL THEN {} ELSE cont[c].state,
                   prev |-> server.cursor,
                   box |-> IF c = NULL THEN ZeroBox
                           ELSE [x |-> cont[c].x, y |-> cont[c].y,
                                 width |-> cont[c].width,
                                 height |-> cont[c].height],
                   fresh |-> IF op = "request_resize"
                                /\ W.server.cursor.state = "RESIZE"
                                /\ W.server.cursor # server.cursor
                             THEN TRUE
                             ELSE IF op \in {"motion", "request_move"}
                                     \/ last_op.op = "none"
                             THEN FALSE
                             ELSE last_op.fresh]
    /\ UNCHANGED <<usable_area, bsp_trace>>

CanHandleCursor == ~crashed /\ events < MaxCursorEvents

CursorMap(t, request) ==
    /\ CanHandleCursor
    /\ t <= CursorTops
    /\ ~top[t].mapped
    /\ \A u \in Top : u < t => top[u].mapped
    /\ \E c \in Cont : ~cont[c].alive
    /\ CursorHandle(on_surface_map(World, t, FALSE, request), "map", NULL)

CursorUnmap(t) ==
    /\ CanHandleCursor
    /\ top[t].mapped
    /\ CursorHandle(on_surface_unmap(World, t), "unmap", top[t].container)

CursorRequestMove(t) ==
    /\ CanHandleCursor
    /\ top[t].mapped
    /\ CursorHandle(on_request_move(World, t), "request_move",
                    top[t].container)

CursorRequestResize(t, edges) ==
    /\ CanHandleCursor
    /\ top[t].mapped
    /\ CursorHandle(on_request_resize(World, t, edges), "request_resize",
                    top[t].container)

\* the pointer moves dt milliseconds after the event before
CursorMotion(p, dt) ==
    /\ CanHandleCursor
    /\ p # <<server.cursor.x, server.cursor.y>>
    /\ CursorHandle(process_cursor_motion(clock_advance(World, dt),
                                          p[1], p[2]),
                    "motion",
                    IF server.cursor.grabbed_toplevel = NULL THEN NULL
                    ELSE top[server.cursor.grabbed_toplevel].container)

\* on_cursor_button() for a released button
CursorButtonRelease ==
    /\ CanHandleCursor
    /\ CursorHandle(stop_interactive(World), "release",
                    IF server.cursor.grabbed_toplevel = NULL THEN NULL
                    ELSE top[server.cursor.grabbed_toplevel].container)

CursorSetFullscreen(c, set) ==
    /\ CanHandleCursor
    /\ cont[c].alive
    /\ CursorHandle(cwc_container_set_fullscreen(World, c, set),
                    IF set THEN "set_fullscreen" ELSE "unset_fullscreen", c)

CursorSetMaximized(c, set) ==
    /\ CanHandleCursor
    /\ cont[c].alive
    /\ CursorHandle(cwc_container_set_maximized(World, c, set),
                    IF set THEN "set_maximized" ELSE "unset_maximized", c)

CursorSetGeometry(c, box) ==
    /\ CanHandleCursor
    /\ cont[c].alive
    /\ CursorHandle(luaC_container_set_geometry(World, c, box),
                    "set_geometry", c)

NextCursor ==
    \/ \E t \in Top, r \in {"tiled", "float"} : CursorMap(t, r)
    \/ \E t \in Top : CursorUnmap(t)
    \/ \E t \in Top : CursorRequestMove(t)
    \/ \E t \in Top, e \in ResizeEdges : CursorRequestResize(t, e)
    \/ \E p \in CursorPoints, dt \in CursorDelays : CursorMotion(p, dt)
    \/ CursorButtonRelease
    \/ \E c \in Cont, set \in BOOLEAN : CursorSetFullscreen(c, set)
    \/ \E c \in Cont, set \in BOOLEAN : CursorSetMaximized(c, set)
    \/ \E c \in Cont, b \in ScriptBoxes : CursorSetGeometry(c, b)

SpecCursor == InitCursor /\ [][NextCursor]_vars

\* ------------------------------------------- resize scheduling over time
MaxResizeEvents == 5
ResizeTops == 1

\* wlr_output.refresh in mHz: unknown, 60 Hz, 120 Hz, 144 Hz
ResizeRates == {0, 60000, 120000, 144000}

\* milliseconds between two pointer events
ResizeDelays == {0, 1, 7, 8, 9, 17}

InitResize ==
    /\ nodes = [n \in Node |-> FreeNode]
    /\ cont = [c \in Cont |-> FreeCont]
    /\ top = [t \in Top |-> FreeTop]
    /\ view_info = [w \in ViewIndex |->
                      [layout_mode |-> "FLOATING",
                       useless_gaps |-> 0,
                       master_state |-> DefaultMasterState,
                       bsp_root_entry |->
                           [root |-> NULL, last_focused |-> NULL]]]
    /\ ostate = [active_tag |-> {1}, active_workspace |-> 1,
                 containers |-> <<>>, focus_stack |-> <<>>,
                 minimized |-> <<>>, toplevels |-> <<>>,
                 max_general_workspace |-> 9]
    /\ usable_area = [x |-> 0, y |-> 0, width |-> 1600, height |-> 900]
    /\ \E r \in ResizeRates : server = [InitServer EXCEPT !.refresh = r]
    /\ events = 0
    /\ crashed = FALSE
    /\ bsp_trace = InitTrace
    /\ last_op = [op |-> "none", c |-> NULL, state |-> {}, prev |-> NULL,
                  configured |-> FALSE, gap |-> 0, first |-> -1,
                  motions |-> 0, ncfg |-> 0, since |-> 0, taken_at |-> 0]

CanHandleResize == ~crashed /\ events < MaxResizeEvents

\* one event handled, with the history of the resize grab: taken_at is the
\* time the grab was taken, since the time it was taken or last configured
\* the client, gap the time from then to this event, first the time of the first motion of the grab, motions
\* and ncfg the motions and the configures of the grab so far
ResizeHandle(W, op, c) ==
    LET taken == op = "request_resize"
                 /\ W.server.cursor.state = "RESIZE"
                 /\ W.server.cursor # server.cursor
        moved == op = "motion" /\ server.cursor.state = "RESIZE"
        configured ==
            /\ moved
            /\ \/ W.cont[c] # cont[c]
               \/ W.server.cursor.last_resize_time_msec
                      # server.cursor.last_resize_time_msec
    IN /\ Commit(W)
       /\ events' = events + 1
       /\ last_op' = [op |-> op, c |-> c,
                      state |-> IF c = NULL THEN {} ELSE cont[c].state,
                      prev |-> server.cursor,
                      configured |-> configured,
                      gap |-> W.server.now - last_op.since,
                      since |-> IF taken \/ configured THEN W.server.now
                                ELSE last_op.since,
                      taken_at |-> IF taken THEN W.server.now
                                   ELSE last_op.taken_at,
                      first |-> IF taken THEN -1
                                ELSE IF moved /\ last_op.first = -1
                                THEN W.server.now
                                ELSE last_op.first,
                      motions |-> IF taken THEN 0
                                  ELSE IF moved THEN last_op.motions + 1
                                  ELSE last_op.motions,
                      ncfg |-> IF taken THEN 0
                               ELSE IF configured THEN last_op.ncfg + 1
                               ELSE last_op.ncfg]
       /\ UNCHANGED <<usable_area, bsp_trace>>

ResizeMap(t) ==
    /\ CanHandleResize
    /\ t <= ResizeTops
    /\ ~top[t].mapped
    /\ \E c \in Cont : ~cont[c].alive
    /\ ResizeHandle(on_surface_map(World, t, FALSE, "float"), "map", NULL)

ResizeUnmap(t) ==
    /\ CanHandleResize
    /\ top[t].mapped
    /\ ResizeHandle(on_surface_unmap(World, t), "unmap", top[t].container)

ResizeRequestResize(t, edges) ==
    /\ CanHandleResize
    /\ top[t].mapped
    /\ ResizeHandle(on_request_resize(World, t, edges), "request_resize",
                    top[t].container)

ResizeMotion(p, dt) ==
    /\ CanHandleResize
    /\ p # <<server.cursor.x, server.cursor.y>>
    /\ ResizeHandle(process_cursor_motion(clock_advance(World, dt),
                                          p[1], p[2]),
                    "motion",
                    IF server.cursor.grabbed_toplevel = NULL THEN NULL
                    ELSE top[server.cursor.grabbed_toplevel].container)

ResizeButtonRelease ==
    /\ CanHandleResize
    /\ ResizeHandle(stop_interactive(World), "release",
                    IF server.cursor.grabbed_toplevel = NULL THEN NULL
                    ELSE top[server.cursor.grabbed_toplevel].container)

NextResize ==
    \/ \E t \in Top : ResizeMap(t)
    \/ \E t \in Top : ResizeUnmap(t)
    \/ \E t \in Top, e \in ResizeEdges : ResizeRequestResize(t, e)
    \/ \E p \in CursorPoints, dt \in ResizeDelays : ResizeMotion(p, dt)
    \/ ResizeButtonRelease

SpecResize == InitResize /\ [][NextResize]_vars

\* ------------------------------------------------- clearing bindings
MaxBindEvents == 4

\* the keys of the map: two keys of the configuration and Ctrl+Alt+F1..F12
BindKeys ==
    {<<0, 97>>} \cup {<<CtrlAlt, xkb_keysym_from_name_F(i)>> : i \in 1..12}

\* the keys the configuration binds and the user presses
UsedKeys ==
    {<<0, 97>>, <<CtrlAlt, xkb_keysym_from_name_F(1)>>,
     <<CtrlAlt, xkb_keysym_from_name_F(12)>>}

\* the bindings cwc.kbd.bind() registers
LuaBindInfos == {b \in KeybindInfos : b.type = "LUA"}

\* the first argument of cwc.kbd.clear()
ClearArgs == {"none", "true", "false", "nil", "number"}

\* server_init(): the map is created and the common keys are registered
InitBind ==
    /\ nodes = [n \in Node |-> FreeNode]
    /\ cont = [c \in Cont |-> FreeCont]
    /\ top = [t \in Top |-> FreeTop]
    /\ view_info = [w \in ViewIndex |->
                      [layout_mode |-> "FLOATING",
                       useless_gaps |-> 0,
                       master_state |-> DefaultMasterState,
                       bsp_root_entry |->
                           [root |-> NULL, last_focused |-> NULL]]]
    /\ ostate = [active_tag |-> {1}, active_workspace |-> 1,
                 containers |-> <<>>, focus_stack |-> <<>>,
                 minimized |-> <<>>, toplevels |-> <<>>,
                 max_general_workspace |-> 9]
    /\ usable_area = [x |-> 0, y |-> 0, width |-> 1600, height |-> 900]
    /\ server = keybind_register_common_key(
                    [server |->
                        [InitServer EXCEPT !.keybind_kbd_map =
                                               [k \in BindKeys |-> NoBind]]])
                    .server
    /\ events = 0
    /\ crashed = FALSE
    /\ bsp_trace = InitTrace
    /\ last_op = NoOp

CanHandleBind == ~crashed /\ events < MaxBindEvents

BindHandle(W, op, c) ==
    /\ Commit(W)
    /\ events' = events + 1
    /\ last_op' = [op |-> op, c |-> c, state |-> {}, prev |-> NULL]
    /\ UNCHANGED <<usable_area, bsp_trace>>

\* cwc.kbd.bind()
BindRegister(key, info) ==
    /\ CanHandleBind
    /\ BindHandle(keybind_kbd_register(World, key[1], key[2], info),
                  "bind", key)

\* cwc.kbd.clear(arg)
BindLuaClear(arg) ==
    /\ CanHandleBind
    /\ BindHandle(luaC_kbd_clear(World, arg), "clear", arg)

\* cwc.reload()
BindReload ==
    /\ CanHandleBind
    /\ BindHandle(cwc_restart_lua(World), "reload", NULL)

\* a key is pressed
BindKey(key) ==
    /\ CanHandleBind
    /\ BindHandle(on_kbd_key(World, key[1], key[2], TRUE), "key_press", key)

NextBind ==
    \/ \E k \in UsedKeys, i \in LuaBindInfos : BindRegister(k, i)
    \/ \E a \in ClearArgs : BindLuaClear(a)
    \/ BindReload
    \/ \E k \in UsedKeys : BindKey(k)

SpecBind == InitBind /\ [][NextBind]_vars

\* ------------------------------------------------- focus signals
MaxFocusEvents == 5
FocusTops == 3

CanHandleFocus == ~crashed /\ events < MaxFocusEvents

\* one event handled; prev keeps the surface that had the keyboard focus
FocusHandle(W, op, c) ==
    /\ Commit(W)
    /\ events' = events + 1
    /\ last_op' = [op |-> op, c |-> c, state |-> {},
                   prev |-> server.focused_surface]
    /\ UNCHANGED <<usable_area, bsp_trace>>

FocusMap(t, unmanaged) ==
    /\ CanHandleFocus
    /\ t <= FocusTops
    /\ ~top[t].mapped
    /\ \A u \in Top : u < t => top[u].mapped
    /\ \E c \in Cont : ~cont[c].alive
    /\ FocusHandle(on_surface_map(World, t, unmanaged, "float"), "map", t)

FocusUnmap(t) ==
    /\ CanHandleFocus
    /\ top[t].mapped
    /\ FocusHandle(on_surface_unmap(World, t), "unmap", t)

\* on_cursor_button(): a button is pressed with the cursor on a toplevel
FocusCursorButton(t) ==
    /\ CanHandleFocus
    /\ top[t].mapped
    /\ FocusHandle(cwc_toplevel_focus(World, t), "click", t)

FocusLayerMap(keyboard_interactive) ==
    /\ CanHandleFocus
    /\ ~server.lsurf[1].alive
    /\ FocusHandle(layer_surface_mapped(
                       on_layer_surface_commit(
                           layer_on_new_surface(World, 1, "TOP"),
                           1, "TOP", keyboard_interactive),
                       1),
                   "layer_map", NULL)

FocusLayerUnmap ==
    /\ CanHandleFocus
    /\ server.lsurf[1].mapped
    /\ FocusHandle(layer_surface_destroyed(World, 1),
                   "layer_unmap", NULL)

NextFocus ==
    \/ \E t \in Top, u \in BOOLEAN : FocusMap(t, u)
    \/ \E t \in Top : FocusUnmap(t)
    \/ \E t \in Top : FocusCursorButton(t)
    \/ \E ki \in {"NONE", "EXCLUSIVE", "ON_DEMAND"} : FocusLayerMap(ki)
    \/ FocusLayerUnmap

SpecFocus == InitCursor /\ [][NextFocus]_vars

\* ------------------------------------------- layer surfaces and the pin
MaxLayerEvents == 5
LayerTops == 1
Layers == {"BOTTOM", "TOP"}
Interactivity == {"NONE", "EXCLUSIVE", "ON_DEMAND"}

InitLayer ==
    /\ nodes = [n \in Node |-> FreeNode]
    /\ cont = [c \in Cont |-> FreeCont]
    /\ top = [t \in Top |-> FreeTop]
    /\ view_info = [w \in ViewIndex |->
                      [layout_mode |-> "FLOATING",
                       useless_gaps |-> 0,
                       master_state |-> DefaultMasterState,
                       bsp_root_entry |->
                           [root |-> NULL, last_focused |-> NULL]]]
    /\ ostate = [active_tag |-> {1}, active_workspace |-> 1,
                 containers |-> <<>>, focus_stack |-> <<>>,
                 minimized |-> <<>>, toplevels |-> <<>>,
                 max_general_workspace |-> 9]
    /\ usable_area = [x |-> 0, y |-> 0, width |-> 1600, height |-> 900]
    /\ server \in {[InitServer EXCEPT !.freed = f] : f \in {"trap", "stale"}}
    /\ events = 0
    /\ crashed = FALSE
    /\ bsp_trace = InitTrace
    /\ last_op = [op |-> "none", c |-> NULL, state |-> {}, prev |-> NULL]

CanHandleLayer == ~crashed /\ events < MaxLayerEvents

\* one event handled; prev keeps the layer surface that was pinned before
LayerHandle(W, op, c) ==
    /\ Commit(W)
    /\ events' = events + 1
    /\ last_op' = [op |-> op, c |-> c, state |-> {},
                   prev |-> server.exclusive_kbd_interactive]
    /\ UNCHANGED <<usable_area, bsp_trace>>

LayerToplevelMap(t) ==
    /\ CanHandleLayer
    /\ t <= LayerTops
    /\ ~top[t].mapped
    /\ \E c \in Cont : ~cont[c].alive
    /\ LayerHandle(on_surface_map(World, t, FALSE, "float"), "map", t)

LayerCursorButton(t) ==
    /\ CanHandleLayer
    /\ top[t].mapped
    /\ LayerHandle(cwc_toplevel_focus(World, t), "click", t)

\* calloc() hands out any unused struct cwc_layer_surface
LayerNewSurface(l, layer) ==
    /\ CanHandleLayer
    /\ ~server.lsurf[l].alive
    /\ LayerHandle(layer_on_new_surface(World, l, layer), "layer_new", l)

\* the initial commit, or a later one that changes the committed state
LayerCommit(l, layer, keyboard_interactive) ==
    /\ CanHandleLayer
    /\ server.lsurf[l].alive
    /\ \/ ~server.lsurf[l].initialized /\ ~server.lsurf[l].mapped
       \/ /\ server.lsurf[l].initialized
          /\ <<layer, keyboard_interactive>> #
                 <<server.lsurf[l].layer,
                   server.lsurf[l].keyboard_interactive>>
    /\ LayerHandle(on_layer_surface_commit(World, l, layer,
                                           keyboard_interactive),
                   "layer_commit", l)

LayerMap(l) ==
    /\ CanHandleLayer
    /\ server.lsurf[l].initialized
    /\ ~server.lsurf[l].mapped
    /\ LayerHandle(layer_surface_mapped(World, l), "layer_map", l)

LayerUnmap(l) ==
    /\ CanHandleLayer
    /\ server.lsurf[l].mapped
    /\ LayerHandle(on_layer_surface_unmap(World, l), "layer_unmap", l)

LayerDestroy(l) ==
    /\ CanHandleLayer
    /\ server.lsurf[l].alive
    /\ LayerHandle(layer_surface_destroyed(World, l), "layer_destroy", l)

NextLayer ==
    \/ \E t \in Top : LayerToplevelMap(t)
    \/ \E t \in Top : LayerCursorButton(t)
    \/ \E l \in LayerId, layer \in Layers : LayerNewSurface(l, layer)
    \/ \E l \in LayerId, layer \in Layers, ki \in Interactivity :
           LayerCommit(l, layer, ki)
    \/ \E l \in LayerId : LayerMap(l)
    \/ \E l \in LayerId : LayerUnmap(l)
    \/ \E l \in LayerId : LayerDestroy(l)

SpecLayer == InitLayer /\ [][NextLayer]_vars

\* ------------------------------------------------------ C signal callbacks
MaxSignalEvents == 4

\* trace is the sequence of the calls made so far, calls the callbacks that
\* the last emit called
InitSignal ==
    /\ nodes = [n \in Node |-> FreeNode]
    /\ cont = [c \in Cont |-> FreeCont]
    /\ top = [t \in Top |-> FreeTop]
    /\ view_info = [w \in ViewIndex |->
                      [layout_mode |-> "FLOATING",
                       useless_gaps |-> 0,
                       master_state |-> DefaultMasterState,
                       bsp_root_entry |->
                           [root |-> NULL, last_focused |-> NULL]]]
    /\ ostate = [active_tag |-> {1}, active_workspace |-> 1,
                 containers |-> <<>>, focus_stack |-> <<>>,
                 minimized |-> <<>>, toplevels |-> <<>>,
                 max_general_workspace |-> 9]
    /\ usable_area = [x |-> 0, y |-> 0, width |-> 1600, height |-> 900]
    /\ server = InitServer
    /\ events = 0
    /\ crashed = FALSE
    /\ bsp_trace = InitTrace
    /\ last_op = [op |-> "none", c |-> NULL, state |-> {}, prev |-> NULL,
                  trace |-> <<>>, calls |-> <<>>]

CanHandleSignal == ~crashed /\ events < MaxSignalEvents

SignalHandle(W, op, name, callback, calls) ==
    /\ Commit(W)
    /\ events' = events + 1
    /\ last_op' = [op |-> op, c |-> name, state |-> {}, prev |-> NULL,
                   trace |-> Append(last_op.trace, <<op, name, callback>>),
                   calls |-> calls]
    /\ UNCHANGED <<usable_area, bsp_trace>>

SignalConnect(name, callback) ==
    /\ CanHandleSignal
    /\ SignalHandle(cwc_signal_connect(World, name, callback),
                    "connect", name, callback, <<>>)

SignalDisconnect(name, callback) ==
    /\ CanHandleSignal
    /\ SignalHandle(cwc_signal_disconnect(World, name, callback),
                    "disconnect", name, callback, <<>>)

SignalEmitC(name) ==
    /\ CanHandleSignal
    /\ LET W == cwc_signal_emit_c(World, name)
       IN SignalHandle(W, "emit", name, "none",
                       emit_c(W.server.signal_map[name]))

SignalEmit(name) ==
    /\ CanHandleSignal
    /\ SignalHandle(World, "emit", name, "none",
                    cwc_signal_emit_calls(World, name))

NextSignal ==
    \/ \E name \in Signals, f \in Callbacks : SignalConnect(name, f)
    \/ \E name \in Signals, f \in Callbacks : SignalDisconnect(name, f)
    \/ \E name \in Signals : SignalEmitC(name)
    \/ \E name \in Signals : SignalEmit(name)

SpecSignal == InitSignal /\ [][NextSignal]_vars

\* ------------------------------------- emission with callbacks that act
MaxEmitEvents == 3

Acts == [Callbacks -> Behaviours]

CanHandleEmit == ~crashed /\ events < MaxEmitEvents

\* start is the number of entries the list had when the emission began
EmitHandle(W, op, name, r, start) ==
    /\ Commit(W)
    /\ events' = events + 1
    /\ last_op' = [op |-> op, c |-> name, state |-> {}, prev |-> NULL,
                   trace |-> <<>>, calls |-> r.called, ids |-> r.ids,
                   start |-> start, read_freed |-> r.read_freed,
                   loops |-> r.loops]
    /\ UNCHANGED <<usable_area, bsp_trace>>

NoWalk ==
    [ids |-> <<>>, called |-> <<>>, read_freed |-> FALSE, loops |-> FALSE]

EmitConnect(name, callback) ==
    /\ CanHandleEmit
    /\ EmitHandle(cwc_signal_connect(World, name, callback),
                  "connect", name, NoWalk, 0)

EmitDisconnect(name, callback) ==
    /\ CanHandleEmit
    /\ EmitHandle(cwc_signal_disconnect(World, name, callback),
                  "disconnect", name, NoWalk, 0)

\* the read of a destroyed entry finds the link wl_list_remove() cleared or
\* what the allocator wrote over it, and the next call goes through it; a
\* walk that does not end handles no further event either
EmitActing(name, act) ==
    /\ CanHandleEmit
    /\ LET r == cwc_signal_emit_c_acting(World, name, act)
           start == Len(World.server.signal_map[name].c_callbacks)
       IN EmitHandle(IF r.read_freed \/ r.loops THEN Crash(r.W) ELSE r.W,
                     "emit", name, r, start)

NextEmit ==
    \/ \E name \in Signals, f \in Callbacks : EmitConnect(name, f)
    \/ \E name \in Signals, f \in Callbacks : EmitDisconnect(name, f)
    \/ \E name \in Signals, act \in Acts : EmitActing(name, act)

SpecEmit == InitSignal /\ [][NextEmit]_vars

\* ----------------------------------------------------- displays come and go
MaxOutputEvents == 5
OutputTops == 1

\* destroyed maps each name to the state its output had when it was last
\* destroyed, NULL if no output of that name was ever destroyed
InitOutput ==
    /\ nodes = [n \in Node |-> FreeNode]
    /\ cont = [c \in Cont |-> FreeCont]
    /\ top = [t \in Top |-> FreeTop]
    /\ view_info = [w \in ViewIndex |->
                      [layout_mode |-> "FLOATING",
                       useless_gaps |-> 0,
                       master_state |-> DefaultMasterState,
                       bsp_root_entry |->
                           [root |-> NULL, last_focused |-> NULL]]]
    /\ ostate = [active_tag |-> {1}, active_workspace |-> 1,
                 containers |-> <<>>, focus_stack |-> <<>>,
                 minimized |-> <<>>, toplevels |-> <<>>,
                 max_general_workspace |-> 9]
    /\ usable_area = [x |-> 0, y |-> 0, width |-> 1600, height |-> 900]
    /\ server \in {[InitServer EXCEPT !.freed = f] : f \in {"trap", "stale"}}
    /\ events = 0
    /\ crashed = FALSE
    /\ bsp_trace = InitTrace
    /\ last_op = [op |-> "none", c |-> "none", state |-> {}, prev |-> NULL,
                  destroyed |-> [name \in OutputNames |-> NULL],
                  read |-> {}]

CanHandleOutput == ~crashed /\ events < MaxOutputEvents

\* read is the set of struct cwc_output pointers the handler read through
OutputHandle(W, op, name, destroyed) ==
    /\ Commit(W)
    /\ events' = events + 1
    /\ last_op' = [op |-> op, c |-> name, state |-> {}, prev |-> NULL,
                   destroyed |-> destroyed, read |-> {}]
    /\ UNCHANGED <<usable_area, bsp_trace>>

OutputReadHandle(W, op, output) ==
    /\ Commit(W)
    /\ events' = events + 1
    /\ last_op' = [op |-> op, c |-> "none", state |-> {}, prev |-> NULL,
                   destroyed |-> last_op.destroyed, read |-> {output}]
    /\ UNCHANGED <<usable_area, bsp_trace>>

OutputNew(name) ==
    /\ CanHandleOutput
    /\ ~server.outputs[name].attached
    /\ OutputHandle(on_new_output(World, name), "new_output", name,
                    last_op.destroyed)

OutputDestroy(name) ==
    /\ CanHandleOutput
    /\ server.outputs[name].attached
    /\ OutputHandle(on_output_destroy(World, name), "destroy", name,
                    [last_op.destroyed EXCEPT
                         ![name] = server.outputs[name].state])

\* on_surface_map() of a toplevel: server.focused_output->state is read and
\* the new container is given server.focused_output
OutputMap(t) ==
    /\ CanHandleOutput
    /\ t <= OutputTops
    /\ ~top[t].mapped
    /\ \A u \in Top : u < t => top[u].mapped
    /\ \E c \in Cont : ~cont[c].alive
    /\ LET W1 == output_deref(World, server.focused_output)
       IN OutputReadHandle(IF W1.crashed THEN W1
                           ELSE on_surface_map(W1, t, FALSE, "tiled"),
                           "map", server.focused_output)

\* on_new_surface() of the layer shell for a surface that names no output:
\* server.focused_output->wlr_output is read
OutputLayerNew(surf) ==
    /\ CanHandleOutput
    /\ surf = 1
    /\ ~server.lsurf[surf].alive
    /\ LET W1 == output_deref(World, server.focused_output)
       IN OutputReadHandle(
              IF W1.crashed THEN W1
              ELSE [layer_on_new_surface(W1, surf, "TOP") EXCEPT
                        !.server.lsurf_output[surf] = server.focused_output],
              "layer_new", server.focused_output)

\* a layout operation on a container: container->output->state is read
OutputSetMinimized(c, set) ==
    /\ CanHandleOutput
    /\ cont[c].alive
    /\ LET W1 == output_deref(World, server.cont_output[c])
       IN OutputReadHandle(IF W1.crashed THEN W1
                           ELSE cwc_container_set_minimized(W1, c, set),
                           "set_minimized", server.cont_output[c])

NextOutput ==
    \/ \E name \in OutputNames : OutputNew(name)
    \/ \E name \in OutputNames : OutputDestroy(name)
    \/ \E t \in Top : OutputMap(t)
    \/ \E surf \in LayerId : OutputLayerNew(surf)
    \/ \E c \in Cont, set \in BOOLEAN : OutputSetMinimized(c, set)

SpecOutput == InitOutput /\ [][NextOutput]_vars

\* ------------------------------------- tiling update of a given workspace
MaxUpdateEvents == 5
UpdateTops == 2
UpdateModes == {"FLOATING", "BSP", "MASTER"}

CanHandleUpdate == ~crashed /\ events < MaxUpdateEvents

\* one event handled; prev keeps the workspace given to move_to_tag, engine
\* the layout engine its tiling update ran, moved that it did not return
\* early
UpdateHandle(W, op, c, prev, engine, moved) ==
    /\ Commit(W)
    /\ events' = events + 1
    /\ last_op' = [op |-> op, c |-> c, state |-> {}, prev |-> prev,
                   engine |-> engine, moved |-> moved]
    /\ UNCHANGED <<usable_area, bsp_trace>>

UpdateMap(t) ==
    /\ CanHandleUpdate
    /\ t <= UpdateTops
    /\ ~top[t].mapped
    /\ \A u \in Top : u < t => top[u].mapped
    /\ \E c \in Cont : ~cont[c].alive
    /\ UpdateHandle(on_surface_map(World, t, FALSE, "tiled"), "map", NULL, t,
                    <<"NONE", 0>>, FALSE)

UpdateSetViewOnly(view) ==
    /\ CanHandleUpdate
    /\ UpdateHandle(cwc_output_set_view_only(World, view), "view_only", NULL,
                    view, <<"NONE", 0>>, FALSE)

UpdateSetLayoutMode(mode) ==
    /\ CanHandleUpdate
    /\ UpdateHandle(cwc_output_set_layout_mode(World, mode),
                    "set_layout_mode", NULL, NULL, <<"NONE", 0>>, FALSE)

UpdateMoveToTag(c, tagidx) ==
    /\ CanHandleUpdate
    /\ cont[c].alive
    /\ UpdateHandle(cwc_container_move_to_tag(World, c, tagidx),
                    "move_to_tag", c, tagidx,
                    tiling_layout_engine(World, tagidx),
                    cont[c].tag # TagBits(tagidx, 1))

NextUpdate ==
    \/ \E t \in Top : UpdateMap(t)
    \/ \E v \in Workspace : UpdateSetViewOnly(v)
    \/ \E m \in UpdateModes : UpdateSetLayoutMode(m)
    \/ \E c \in Cont, i \in Workspace : UpdateMoveToTag(c, i)

SpecUpdate == InitCursor /\ [][NextUpdate]_vars

\* --------------------------------------- toplevels stacked in a container
MaxStackEvents == 6
StackTops == 4
StackSteps == -6..6

CanHandleStack == ~crashed /\ events < MaxStackEvents

\* one event handled; prev keeps the front toplevel of container c before
\* the event and n the step given to focusidx
StackHandle(W, op, c, n) ==
    /\ Commit(W)
    /\ events' = events + 1
    /\ last_op' = [op |-> op, c |-> c, state |-> {},
                   prev |-> IF c = NULL THEN NULL
                            ELSE cwc_container_get_front_toplevel(World, c),
                   n |-> n]
    /\ UNCHANGED <<usable_area, bsp_trace>>

\* the first toplevel gets a container, which is marked, and the later ones
\* are inserted into the marked container
StackMap(t) ==
    /\ CanHandleStack
    /\ t <= StackTops
    /\ ~top[t].mapped
    /\ \A u \in Top : u < t => top[u].mapped
    /\ \E c \in Cont : ~cont[c].alive
    /\ t > 1 => server.insert_marked # NULL
    /\ StackHandle(on_surface_map(World, t, FALSE, "float"), "map", NULL, 0)

StackInsertMark(c) ==
    /\ CanHandleStack
    /\ cont[c].alive
    /\ c # server.insert_marked
    /\ StackHandle([World EXCEPT !.server.insert_marked = c], "insert_mark",
                   NULL, 0)

StackFocusIdx(c, idx) ==
    /\ CanHandleStack
    /\ cont[c].alive
    /\ StackHandle(cwc_container_focusidx(World, c, idx), "focusidx", c, idx)

NextStack ==
    \/ \E t \in Top : StackMap(t)
    \/ \E c \in Cont : StackInsertMark(c)
    \/ \E c \in Cont, idx \in StackSteps : StackFocusIdx(c, idx)

SpecStack == InitCursor /\ [][NextStack]_vars

\* ------------------------------------------- the last focused container
MaxLastEvents == 8
LastTops == 2

CanHandleLast == ~crashed /\ events < MaxLastEvents

LastMap(t) ==
    /\ CanHandleLast
    /\ t <= LastTops
    /\ ~top[t].mapped
    /\ \A u \in Top : u < t => top[u].mapped
    /\ \E c \in Cont : ~cont[c].alive
    /\ Handle(on_surface_map(World, t, FALSE, "tiled"), "map", NULL)

LastUnmap(t) ==
    /\ CanHandleLast
    /\ top[t].mapped
    /\ Handle(on_surface_unmap(World, t), "unmap", top[t].container)

LastSetMinimized(c, set) ==
    /\ CanHandleLast
    /\ cont[c].alive
    /\ Handle(cwc_container_set_minimized(World, c, set),
              IF set THEN "set_minimized" ELSE "unset_minimized", c)

LastMoveToTag(c, tagidx) ==
    /\ CanHandleLast
    /\ cont[c].alive
    /\ Handle(cwc_container_move_to_tag(World, c, tagidx), "move_to_tag", c)

LastSetViewOnly(view) ==
    /\ CanHandleLast
    /\ Handle(cwc_output_set_view_only(World, view), "set_view_only", NULL)

LastSetLayoutMode(mode) ==
    /\ CanHandleLast
    /\ Handle(cwc_output_set_layout_mode(World, mode), "set_layout_mode", NULL)

LastFocus(t) ==
    /\ CanHandleLast
    /\ top[t].mapped
    /\ Handle(cwc_toplevel_focus(World, t), "focus", top[t].container)

NextLast ==
    \/ \E t \in Top : LastMap(t)
    \/ \E t \in Top : LastUnmap(t)
    \/ \E c \in Cont, set \in BOOLEAN : LastSetMinimized(c, set)
    \/ \E c \in Cont, i \in Workspace : LastMoveToTag(c, i)
    \/ \E v \in Workspace : LastSetViewOnly(v)
    \/ \E m \in LayoutModes : LastSetLayoutMode(m)
    \/ \E t \in Top : LastFocus(t)

SpecLast == InitWM /\ [][NextLast]_vars

\* ------------------------------------------------- the view_info array
MaxViewEvents == 4
ViewTops == 1

\* struct cwc_view_info view_info[MAX_WORKSPACE]: the entries of the array
ViewSlots == 0..(MAX_WORKSPACE - 1)

\* the workspaces the calls are made with
ViewWorkspaces == {1, MAX_WORKSPACE - 1, MAX_WORKSPACE}
ViewGaps == {0, 4}

\* view_info[MAX_WORKSPACE] is the memory that follows the array, which is
\* the last member of the state and so follows the allocated block: what it
\* holds is not set by cwc_output_state_create()
InitView ==
    /\ nodes = [n \in Node |-> FreeNode]
    /\ cont = [c \in Cont |-> FreeCont]
    /\ top = [t \in Top |-> FreeTop]
    /\ \E mode \in UpdateModes :
           view_info = [w \in 0..MAX_WORKSPACE |->
                           [layout_mode |-> IF w \in ViewSlots
                                            THEN "FLOATING" ELSE mode,
                            useless_gaps |-> 0,
                            master_state |-> DefaultMasterState,
                            bsp_root_entry |->
                                [root |-> NULL, last_focused |-> NULL],
                            initialised |-> w \in ViewSlots]]
    /\ ostate = [active_tag |-> {1}, active_workspace |-> 1,
                 containers |-> <<>>, focus_stack |-> <<>>,
                 minimized |-> <<>>, toplevels |-> <<>>,
                 max_general_workspace |-> 9]
    /\ usable_area = [x |-> 0, y |-> 0, width |-> 1600, height |-> 900]
    /\ server = InitServer
    /\ events = 0
    /\ crashed = FALSE
    /\ bsp_trace = InitTrace
    /\ last_op = [op |-> "none", c |-> NULL, state |-> {}, prev |-> NULL,
                  slots |-> {}]

CanHandleView == ~crashed /\ events < MaxViewEvents

\* one event handled; slots are the indexes of view_info the handler read
\* or wrote. An access outside the array reads or writes the memory that
\* follows it, or is trapped
ViewHandle(W, op, c, prev, slots) ==
    /\ \/ Commit(W)
       \/ /\ ~(slots \subseteq ViewSlots)
          /\ Commit(Crash(World))
    /\ events' = events + 1
    /\ last_op' = [op |-> op, c |-> c, state |-> {}, prev |-> prev,
                   slots |-> slots]
    /\ UNCHANGED <<usable_area, bsp_trace>>

ViewMap(t) ==
    /\ CanHandleView
    /\ t <= ViewTops
    /\ ~top[t].mapped
    /\ \E c \in Cont : ~cont[c].alive
    /\ ViewHandle(on_surface_map(World, t, FALSE, "tiled"), "map", NULL, t,
                  {ostate.active_workspace})

ViewSetViewOnly(view) ==
    /\ CanHandleView
    /\ ViewHandle(cwc_output_set_view_only(World, view), "view_only", NULL,
                  view, {view})

ViewSetLayoutMode(mode) ==
    /\ CanHandleView
    /\ ViewHandle(cwc_output_set_layout_mode(World, mode),
                  "set_layout_mode", NULL, NULL, {ostate.active_workspace})

ViewMoveToTag(c, tagidx) ==
    /\ CanHandleView
    /\ cont[c].alive
    /\ ViewHandle(cwc_container_move_to_tag(World, c, tagidx),
                  "move_to_tag", c, tagidx,
                  IF cont[c].tag = TagBits(tagidx, 1) THEN {}
                  ELSE {tagidx, ostate.active_workspace}
                       \cup (IF cont[c].bsp_node # NULL
                             THEN {cont[c].workspace} ELSE {}))

ViewSetMwfact(workspace, factor) ==
    /\ CanHandleView
    /\ ViewHandle(cwc_output_set_mwfact(World, workspace, factor),
                  "set_mwfact", NULL, workspace,
                  {workspace, ostate.active_workspace})

ViewSetUselessGaps(workspace, gaps_width) ==
    /\ CanHandleView
    /\ ViewHandle(cwc_output_set_useless_gaps(World, workspace, gaps_width),
                  "set_useless_gaps", NULL, workspace,
                  {workspace, ostate.active_workspace})

NextView ==
    \/ \E t \in Top : ViewMap(t)
    \/ \E v \in ViewWorkspaces : ViewSetViewOnly(v)
    \/ \E m \in UpdateModes : ViewSetLayoutMode(m)
    \/ \E c \in Cont, i \in ViewWorkspaces : ViewMoveToTag(c, i)
    \/ \E w \in ViewWorkspaces : ViewSetMwfact(w, <<3, 4>>)
    \/ \E w \in ViewWorkspaces, g \in ViewGaps : ViewSetUselessGaps(w, g)

SpecView == InitView /\ [][NextView]_vars

\* ---------------------------------------------------------- the hash map
MaxMapEvents == 12

\* the XXH3 hashes of the keys: two of bucket 0 of a table of 8 entries
\* and one of each of six other buckets
MapHashes == {8, 16, 1, 2, 4, 5, 6, 7}
MapData == {1}

\* ref is what a key-value map holds after the same calls: NULL for a key
\* with no value; got is what the last get returned
InitMap ==
    /\ nodes = [n \in Node |-> FreeNode]
    /\ cont = [c \in Cont |-> FreeCont]
    /\ top = [t \in Top |-> FreeTop]
    /\ view_info = [w \in ViewIndex |->
                      [layout_mode |-> "FLOATING",
                       useless_gaps |-> 0,
                       master_state |-> DefaultMasterState,
                       bsp_root_entry |->
                           [root |-> NULL, last_focused |-> NULL]]]
    /\ ostate = [active_tag |-> {1}, active_workspace |-> 1,
                 containers |-> <<>>, focus_stack |-> <<>>,
                 minimized |-> <<>>, toplevels |-> <<>>,
                 max_general_workspace |-> 9]
    /\ usable_area = [x |-> 0, y |-> 0, width |-> 1600, height |-> 900]
    /\ server = [InitServer EXCEPT !.hhmap = cwc_hhmap_create(0)]
    /\ events = 0
    /\ crashed = FALSE
    /\ bsp_trace = InitTrace
    /\ last_op = [op |-> "none", c |-> NULL, state |-> {}, prev |-> NULL,
                  ref |-> [h \in MapHashes |-> NULL],
                  got |-> [data |-> NULL, hung |-> FALSE]]

CanHandleMap == ~crashed /\ ~server.hhmap.hung /\ events < MaxMapEvents

MapHandle(map, op, ref, got) ==
    /\ Commit([World EXCEPT !.server.hhmap = map])
    /\ events' = IF op = "get" THEN events ELSE events + 1
    /\ last_op' = [op |-> op, c |-> NULL, state |-> {}, prev |-> NULL,
                   ref |-> ref, got |-> got]
    /\ UNCHANGED <<usable_area, bsp_trace>>

MapInsert(hash, data) ==
    /\ CanHandleMap
    /\ MapHandle(__cwc_hhmap_insert(server.hhmap, hash, data), "insert",
                 [last_op.ref EXCEPT ![hash] = data],
                 [data |-> NULL, hung |-> FALSE])

MapRemove(hash) ==
    /\ CanHandleMap
    /\ MapHandle(__cwc_hhmap_remove(server.hhmap, hash), "remove",
                 [last_op.ref EXCEPT ![hash] = NULL],
                 [data |-> NULL, hung |-> FALSE])

MapGet(hash) ==
    /\ ~crashed
    /\ ~server.hhmap.hung
    /\ LET got == __cwc_hhmap_get(server.hhmap, hash)
       IN MapHandle([server.hhmap EXCEPT !.hung = got.hung], "get",
                    last_op.ref, got)

NextMap ==
    \/ \E h \in MapHashes, d \in MapData : MapInsert(h, d)
    \/ \E h \in MapHashes : MapRemove(h)
    \/ \E h \in MapHashes : MapGet(h)

SpecMap == InitMap /\ [][NextMap]_vars

\* ------------------------------------------- resize without given edges
MaxEdgeEvents == 4
EdgeTops == 1

\* pointer positions over a toplevel mapped at (480, 210, 640, 480): nx and
\* ny of about -0.9, -0.02, 0, 0.5 and 0.9, and one position off the toplevel
EdgePoints ==
    ({512, 794, 800, 960, 1088} \X {234, 446, 450, 570, 666})
        \cup {<<100, 100>>}

\* values found in the uninitialized sx, sy
EdgeGarbage == {<<0, 0>>, <<608, 24>>, <<320, 360>>}

\* the edges of an xdg_toplevel resize request: none, or a corner
EdgeRequests == {{}, {"LEFT", "TOP"}}

InitEdge ==
    /\ nodes = [n \in Node |-> FreeNode]
    /\ cont = [c \in Cont |-> FreeCont]
    /\ top = [t \in Top |-> FreeTop]
    /\ view_info = [w \in ViewIndex |->
                      [layout_mode |-> "FLOATING",
                       useless_gaps |-> 0,
                       master_state |-> DefaultMasterState,
                       bsp_root_entry |->
                           [root |-> NULL, last_focused |-> NULL]]]
    /\ ostate = [active_tag |-> {1}, active_workspace |-> 1,
                 containers |-> <<>>, focus_stack |-> <<>>,
                 minimized |-> <<>>, toplevels |-> <<>>,
                 max_general_workspace |-> 9]
    /\ usable_area = [x |-> 0, y |-> 0, width |-> 1600, height |-> 900]
    /\ \E g \in EdgeGarbage : server = [InitServer EXCEPT !.uninit = g]
    /\ events = 0
    /\ crashed = FALSE
    /\ bsp_trace = InitTrace
    /\ last_op = [op |-> "none", c |-> NULL, state |-> {}, prev |-> NULL,
                  given |-> {}]

CanHandleEdge == ~crashed /\ events < MaxEdgeEvents

\* one event handled; given keeps the edges the event came with
EdgeHandle(W, op, given) ==
    /\ Commit(W)
    /\ events' = events + 1
    /\ last_op' = [op |-> op,
                   c |-> IF W.server.cursor.grabbed_toplevel = NULL THEN NULL
                         ELSE W.top[W.server.cursor.grabbed_toplevel]
                                  .container,
                   state |-> {},
                   prev |-> server.cursor,
                   given |-> given]
    /\ UNCHANGED <<usable_area, bsp_trace>>

EdgeMap(t) ==
    /\ CanHandleEdge
    /\ t <= EdgeTops
    /\ ~top[t].mapped
    /\ \E c \in Cont : ~cont[c].alive
    /\ EdgeHandle(on_surface_map(World, t, FALSE, "float"), "map", {})

EdgeMotion(p) ==
    /\ CanHandleEdge
    /\ p # <<server.cursor.x, server.cursor.y>>
    /\ EdgeHandle(process_cursor_motion(clock_advance(World, 9), p[1], p[2]),
                  "motion", {})

EdgeRequestResize(t, edges) ==
    /\ CanHandleEdge
    /\ top[t].mapped
    /\ EdgeHandle(on_request_resize(World, t, edges), "request_resize",
                  edges)

EdgeResizeInteractive ==
    /\ CanHandleEdge
    /\ EdgeHandle(luaC_pointer_resize_interactive(World), "resize_interactive",
                  {})

EdgeButtonRelease ==
    /\ CanHandleEdge
    /\ EdgeHandle(stop_interactive(World), "release", {})

NextEdge ==
    \/ \E t \in Top : EdgeMap(t)
    \/ \E p \in EdgePoints : EdgeMotion(p)
    \/ \E t \in Top, e \in EdgeRequests : EdgeRequestResize(t, e)
    \/ EdgeResizeInteractive
    \/ EdgeButtonRelease

SpecEdge == InitEdge /\ [][NextEdge]_vars

\* ------------------------------------------------------------- claims
IsInternal(n) == nodes[n].type = "INTERNAL"
IsLeaf(n)     == nodes[n].type = "LEAF"
Roots         == {view_info[w].bsp_root_entry.root : w \in Workspace} \ {NULL}

\* C7: after any sequence of BSP insert, remove, enable, disable and
\* toggle_split, every internal node has exactly two children, each of which
\* names that node as its parent; every leaf has a container whose bsp_node
\* is that leaf; and a root has no parent.
C7_TreeWellFormed ==
    /\ \A n \in Node : IsInternal(n) =>
          /\ nodes[n].left # NULL /\ nodes[n].right # NULL
          /\ nodes[n].left # nodes[n].right
          /\ nodes[nodes[n].left].type # "FREE"
          /\ nodes[nodes[n].right].type # "FREE"
          /\ nodes[nodes[n].left].parent = n
          /\ nodes[nodes[n].right].parent = n
    /\ \A n \in Node : IsLeaf(n) =>
          /\ nodes[n].container # NULL
          /\ cont[nodes[n].container].bsp_node = n
    /\ \A r \in Roots : nodes[r].type # "FREE" /\ nodes[r].parent = NULL

\* a tree of three leaves with a disabled leaf, reached through a remove
C7_Witness ==
    /\ ~crashed
    /\ bsp_trace.ops >= 3
    /\ Cardinality({n \in Node : IsInternal(n)}) = 2
    /\ \E n \in Node : IsLeaf(n) /\ ~nodes[n].enabled
    /\ \E n \in Node : IsInternal(n) /\ nodes[n].split_type = "HORIZONTAL"
    /\ \E c \in Cont : cont[c].bsp_node = NULL /\ "FLOATING" \notin cont[c].state

\* the leaves below a node (the node itself when it is a leaf)
RECURSIVE LeavesUnder(_)
LeavesUnder(n) ==
    IF n = NULL \/ nodes[n].type = "FREE" THEN {}
    ELSE IF nodes[n].type = "LEAF" THEN {n}
    ELSE LeavesUnder(nodes[n].left) \cup LeavesUnder(nodes[n].right)

\* C8: an internal node is enabled exactly when at least one leaf below it
\* is enabled.
C8_EnabledIffLeafEnabled ==
    \A n \in Node : IsInternal(n) =>
        (nodes[n].enabled <=> \E l \in LeavesUnder(n) : nodes[l].enabled)

\* the state that refutes C8: an enabled internal node all of whose leaves
\* are disabled, left behind by a remove
C8_EnabledOverDisabledLeaves ==
    \E n \in Node :
        /\ IsInternal(n)
        /\ nodes[n].enabled
        /\ \A l \in LeavesUnder(n) : ~nodes[l].enabled


Rect(r) == <<r.x, r.y, r.width, r.height>>

\* what one step that gives container c a leaf in a non-empty tree must do
C9_InsertEffect(c) ==
    LET sibling == BspEntry.last_focused
        left    == cont[sibling].bsp_node
        parent  == nodes'[left].parent
        old     == nodes[left].parent
        right   == cont'[c].bsp_node
    IN
    /\ nodes[parent].type = "FREE"
    /\ nodes'[parent].type = "INTERNAL"
    /\ nodes'[parent].left_wfact = <<1, 2>>
    /\ nodes'[parent].left = left
    /\ nodes'[parent].right = right
    /\ nodes'[right].type = "LEAF" /\ nodes'[right].container = c
    /\ nodes'[left].type = "LEAF" /\ nodes'[left].container = sibling
    /\ nodes'[parent].split_type =
          IF nodes[left].width >= nodes[left].height
          THEN "VERTICAL" ELSE "HORIZONTAL"
    /\ nodes'[parent].parent = old
    /\ IF old = NULL
       THEN view_info'[BspWorkspace].bsp_root_entry.root = parent
       ELSE /\ nodes[old].left = left => nodes'[old].left = parent
            /\ nodes[old].right = left => nodes'[old].right = parent
            /\ view_info'[BspWorkspace].bsp_root_entry.root = BspEntry.root
    /\ view_info'[BspWorkspace].bsp_root_entry.last_focused = c

\* the rectangles after four inserts into the empty tree of a 1600x900 output
C9_FourInserts ==
    (/\ bsp_trace.pure
     /\ Len(bsp_trace.seq) = 4
     /\ Rect(usable_area) = <<0, 0, 1600, 900>>)
    => LET A == bsp_trace.seq[1]
           B == bsp_trace.seq[2]
           C == bsp_trace.seq[3]
           D == bsp_trace.seq[4]
       IN /\ Rect(cont[A]) = <<0, 0, 800, 900>>
          /\ Rect(cont[B]) = <<800, 0, 800, 450>>
          /\ Rect(cont[C]) = <<800, 450, 400, 450>>
          /\ Rect(cont[D]) = <<1200, 450, 400, 450>>
          /\ \A c \in {A, B, C, D} :
                Rect(nodes[cont[c].bsp_node]) = Rect(cont[c])

\* C9: inserting a container into a non-empty tree replaces the leaf of
\* last_focused by a new internal node with left_wfact 0.5, that leaf on the
\* left and the new leaf on the right, split vertically iff the leaf is at
\* least as wide as high, and makes the new container last_focused; and four
\* successive inserts on a 1600x900 output end with A=(0,0,800,900),
\* B=(800,0,800,450), C=(800,450,400,450), D=(1200,450,400,450).
C9_InsertSplitsLastFocused ==
    /\ [][\A c \in Cont :
            (/\ BspEntry.root # NULL
             /\ cont[c].bsp_node = NULL
             /\ cont'[c].bsp_node # NULL) => C9_InsertEffect(c)]_vars
    /\ []C9_FourInserts

\* four containers inserted one after the other into the empty tree
C9_Witness ==
    /\ ~crashed
    /\ bsp_trace.pure
    /\ Len(bsp_trace.seq) = 4
    /\ Rect(usable_area) = <<0, 0, 1600, 900>>
    /\ BspEntry.last_focused = bsp_trace.seq[4]
    /\ Cardinality({n \in Node : IsInternal(n)}) = 3

\* C10: for any tree, empty or not, and any container c without a leaf,
\* insert(c) immediately followed by remove(c) restores the tree shape: the
\* same leaves at the same left/right positions under internal nodes with the
\* same split kinds and left_wfact as before the insert.
C10_InsertRemoveRestoresShape ==
    bsp_trace.undo.done =>
        /\ ~crashed
        /\ TreeShape(World, BspWorkspace) = bsp_trace.undo.shape

\* an insert next to a leaf deep in a disturbed tree has just been undone
C10_Witness ==
    /\ bsp_trace.undo.done
    /\ ~crashed
    /\ Cardinality(bsp_trace.undo.shape) >= 5
    /\ \E t \in bsp_trace.undo.shape :
          t[3] = bsp_trace.undo.last_focused /\ Len(t[1]) = 2

\* the round trip on the empty tree
C10_WitnessEmpty ==
    /\ bsp_trace.undo.done
    /\ ~crashed
    /\ bsp_trace.undo.shape = {}
    /\ BspEntry.root = NULL

\* C1: whatever sequence of set_fullscreen, set_maximized, set_minimized and
\* set_floating has run, no container has both its Fullscreen and its
\* Maximized state bit set.
C1_FullscreenMaximizedExclusive ==
    \A c \in Cont : cont[c].alive =>
        ~(/\ cwc_container_is_fullscreen(World, c)
          /\ cwc_container_is_maximized(World, c))

\* a maximized container has just been set fullscreen (and the other way
\* round), and carries the new bit
C1_Witness ==
    /\ ~crashed
    /\ last_op.op = "set_fullscreen"
    /\ "MAXIMIZED" \in last_op.state
    /\ cwc_container_is_fullscreen(World, last_op.c)

C1_WitnessMaximized ==
    /\ ~crashed
    /\ last_op.op = "set_maximized"
    /\ "FULLSCREEN" \in last_op.state
    /\ cwc_container_is_maximized(World, last_op.c)

\* the containers linked in a list of the output
ListSet(list) == {list[i] : i \in 1..Len(list)}

\* C2: after any sequence of map, unmap, container insert/remove, swap,
\* minimize and focus that the process survives, a container is in the
\* output's focus_stack if and only if it is in the output's containers list
\* and is not unmanaged; neither list links a container twice, so both have
\* the same length.
C2_FocusStackIsContainers ==
    ~crashed =>
        /\ \A c \in Cont :
              c \in ListSet(ostate.focus_stack) <=>
                  /\ c \in ListSet(ostate.containers)
                  /\ ~cwc_container_is_unmanaged(World, c)
        /\ ListSet(ostate.containers) = {c \in Cont : Managed(c)}
        /\ Len(ostate.focus_stack) = Len(ostate.containers)
        /\ Len(ostate.containers) = Cardinality(ListSet(ostate.containers))

\* a focus change has reordered a focus stack of at least two containers, next
\* to an unmanaged container that is in neither list
C2_Witness ==
    /\ ~crashed
    /\ last_op.op = "focus"
    /\ Len(ostate.focus_stack) >= 2
    /\ ostate.focus_stack # ostate.containers
    /\ \E c \in Cont : cont[c].alive /\ cwc_container_is_unmanaged(World, c)

\* the leaves that hold container c, and the nodes of the tree of workspace w
LeavesOf(c) == {n \in Node : IsLeaf(n) /\ nodes[n].container = c}

RECURSIVE NodesUnder(_)
NodesUnder(n) ==
    IF n = NULL \/ nodes[n].type = "FREE" THEN {}
    ELSE {n} \cup (IF IsInternal(n)
                   THEN NodesUnder(nodes[n].left) \cup NodesUnder(nodes[n].right)
                   ELSE {})

TreeOf(w) == NodesUnder(view_info[w].bsp_root_entry.root)

\* C3: after any sequence of map, set_minimized across view switches,
\* move_to_tag, set_floating and layout-mode changes, on every workspace whose
\* layout mode is BSP every tileable visible container of that workspace has
\* exactly one leaf, and that leaf is in the tree of that workspace.
C3_TileableHasLeafInItsTree ==
    ~crashed =>
        \A w \in Workspace : view_info[w].layout_mode = "BSP" =>
            \A c \in Cont :
                (/\ cont[c].alive
                 /\ cont[c].workspace = w
                 /\ cont[c].toplevels # <<>>
                 /\ cwc_toplevel_is_tileable(
                        World, cwc_container_get_front_toplevel(World, c)))
                => /\ Cardinality(LeavesOf(c)) = 1
                   /\ LeavesOf(c) \subseteq TreeOf(w)

\* a container that asked to be minimized when it was mapped on a BSP
\* workspace has been restored: it is tileable and visible and has no leaf
C3_RestoredWithoutLeaf ==
    /\ ~crashed
    /\ last_op.op = "unset_minimized"
    /\ "MINIMIZED" \in last_op.state
    /\ {"FULLSCREEN", "MAXIMIZED", "FLOATING"} \cap last_op.state = {}
    /\ view_info[cont[last_op.c].workspace].layout_mode = "BSP"
    /\ cwc_toplevel_is_tileable(
           World, cwc_container_get_front_toplevel(World, last_op.c))
    /\ LeavesOf(last_op.c) = {}

\* a container minimized on one BSP workspace has been restored on another:
\* its leaf is still in the tree of the workspace it left
C3_LeafInAnotherTree ==
    /\ ~crashed
    /\ \E c \in Cont, w \in Workspace :
          /\ cont[c].alive /\ cont[c].workspace # w
          /\ cont[c].bsp_node # NULL
          /\ cont[c].bsp_node \in TreeOf(w)
\* ------------------------------------------------ claims: session lock
\* the locks that hold the session: allocated, and sent locked
LiveLocks ==
    {l \in Locker : server.lockers[l].alive /\ server.lockers[l].locked_sent}

\* C4: while session_lock.locked is true and the process runs, the keyboard
\* focus is on the lock surface, the surface of the live lock that was sent
\* locked, after every handled event
C4_FocusOnLockSurfaceWhileLocked ==
    (~crashed /\ server.session_lock.locked) =>
        \A l \in LiveLocks : server.focused_surface = LockSurface(l)

\* a second lock presented its surface while the first lock held the
\* session, and the keyboard focus went to the surface of the second
C4_FocusStolen ==
    /\ ~crashed
    /\ last_op.op = "new_surface"
    /\ "HELD" \in last_op.state
    /\ last_op.c # last_op.prev
    /\ server.session_lock.locked
    /\ last_op.prev \in LiveLocks
    /\ server.focused_surface = LockSurface(last_op.c)

\* while the locker the manager points to is allocated, every focus change is
\* reverted to the surface of that locker
C4_PinnedToManagersLocker ==
    (/\ ~crashed
     /\ server.session_lock.locked
     /\ server.lockers[server.session_lock.locker].alive
     /\ server.lockers[server.session_lock.locker].locked_sent)
        => server.focused_surface = LockSurface(server.session_lock.locker)

\* a focus request, a click, a map or a layer surface arrived while a lock
\* held the session and the focus is on the lock surface afterwards
C4_Reverted ==
    /\ ~crashed
    /\ last_op.op \in {"focus", "click", "map", "layer_map"}
    /\ "HELD" \in last_op.state
    /\ server.session_lock.locked
    /\ server.focused_surface = LockSurface(server.session_lock.locker)

\* the binding of the key of the latest key event
LastKeyInfo ==
    server.keybind_kbd_map[keybind_generate_key(last_op.prev, last_op.c)]

\* C5 without the identity of the surface: locked, no callback runs and the
\* press goes to the focused surface; unlocked, on_press of the matching
\* binding runs and the press is withheld iff a binding matched
C5_Dispatch ==
    last_op.op = "key_press" =>
        IF "LOCKED" \in last_op.state
        THEN /\ server.key_event.invoked = {}
             /\ server.key_event.notified = server.focused_surface
        ELSE /\ LastKeyInfo.on_press => "on_press" \in server.key_event.invoked
             /\ LastKeyInfo.type = "NONE" => server.key_event.invoked = {}
             /\ (server.key_event.notified = Withheld)
                    <=> (LastKeyInfo.type # "NONE")

\* C5: on a key press with the session locked no binding callback is invoked
\* and the press is forwarded to the focused surface, which is the lock
\* surface; with the session unlocked on_press of the matching binding is
\* invoked and the press is withheld from the client iff a binding matched
\* the (modifiers, keysym) pair
C5_KeyPressDispatch ==
    /\ C5_Dispatch
    /\ (last_op.op = "key_press" /\ "LOCKED" \in last_op.state) =>
           \A l \in LiveLocks : server.key_event.notified = LockSurface(l)

\* a key was pressed while a lock held the session and the press was
\* delivered to a surface that is not the surface of that lock
C5_PressToAnotherSurface ==
    /\ ~crashed
    /\ last_op.op = "key_press"
    /\ "LOCKED" \in last_op.state
    /\ \E l \in LiveLocks : server.key_event.notified # LockSurface(l)

\* a bound key was pressed with the session unlocked: on_press ran and the
\* press was withheld
C5_BoundPress ==
    /\ last_op.op = "key_press"
    /\ "LOCKED" \notin last_op.state
    /\ LastKeyInfo.on_press
    /\ server.key_event.invoked = {"on_press"}
    /\ server.key_event.notified = Withheld

\* C6: when a second lock presents a surface while a first lock holds the
\* session, the new lock is destroyed and the manager's locker, the lock
\* surface and the keyboard focus stay those of the first lock
C6_SecondLockRejected ==
    (/\ last_op.op = "new_surface"
     /\ "HELD" \in last_op.state
     /\ last_op.c # last_op.prev)
        => /\ ~crashed
           /\ ~server.lockers[last_op.c].alive
           /\ server.session_lock.locked
           /\ server.session_lock.locker = last_op.prev
           /\ server.focused_surface = LockSurface(last_op.prev)

\* the second lock was destroyed, and the manager's locker and the keyboard
\* focus are those of the second lock
C6_SecondLockTookOver ==
    /\ ~crashed
    /\ last_op.op = "new_surface"
    /\ "HELD" \in last_op.state
    /\ last_op.c # last_op.prev
    /\ ~server.lockers[last_op.c].alive
    /\ server.session_lock.locker = last_op.c
    /\ server.focused_surface = LockSurface(last_op.c)

\* ------------------------------------------- claims: tags and workspaces
\* container c is on workspace i with only the tag of i, and has a leaf in
\* the tree of i when i is a BSP workspace
OnTag(W, c, i) ==
    /\ ~W.crashed
    /\ W.cont[c].workspace = i
    /\ W.cont[c].tag = {i}
    /\ W.view_info[i].layout_mode = "BSP" =>
           /\ W.cont[c].bsp_node # NULL
           /\ bsp_get_root(W, W.cont[c].bsp_node)
                  = W.view_info[i].bsp_root_entry.root

\* C11: from every state of a container, move_to_tag(i); move_to_tag(j);
\* move_to_tag(i) leaves it where move_to_tag(i) alone does: on workspace
\* i, with tag bit(i-1), and with a leaf in the tree of i when i is BSP
C11_MoveToTagThrice ==
    ~crashed =>
        \A c \in Cont : cont[c].alive =>
            \A i \in Workspace, j \in Workspace :
                /\ OnTag(cwc_container_move_to_tag(World, c, i), c, i)
                /\ OnTag(cwc_container_move_to_tag(
                             cwc_container_move_to_tag(
                                 cwc_container_move_to_tag(World, c, i),
                                 c, j),
                             c, i),
                         c, i)

\* move_to_tag(i) ran and the container is not on workspace i
C11_StaysOnOldWorkspace ==
    /\ ~crashed
    /\ last_op.op = "move_to_tag"
    /\ cont[last_op.c].alive
    /\ cont[last_op.c].workspace # last_op.prev

\* C12: on the output, active_tag is non-zero whenever active_workspace is
\* non-zero, after any sequence of view_only, toggle_tag and writes of
\* active_tag and active_workspace
C12_ActiveTagNonZero ==
    (~crashed /\ ostate.active_workspace # 0) => ostate.active_tag # {}

\* toggle_tag cleared the only active tag and the workspace is still viewed
C12_ToggledToZero ==
    /\ ~crashed
    /\ last_op.op = "toggle_tag"
    /\ ostate.active_workspace = last_op.prev
    /\ ostate.active_tag = {}

\* C13: on the output, active_workspace is 0 or lies in
\* 1..max_general_workspace, after any sequence of view_only, writes of
\* active_workspace and writes of max_general_workspace
C13_ActiveWorkspaceInRange ==
    ~crashed =>
        \/ ostate.active_workspace = 0
        \/ ostate.active_workspace \in 1..ostate.max_general_workspace

\* max_general_workspace was lowered below the workspace that is viewed
C13_MaxLoweredBelowActive ==
    /\ ~crashed
    /\ last_op.op = "set_max_general_workspace"
    /\ ostate.max_general_workspace >= 1
    /\ ostate.active_workspace > ostate.max_general_workspace

\* ------------------------------------------------- claims: visibility
\* C14 as stated: for every container state, workspace and tag and every
\* active_workspace and active_tag, zero included, is_visible(c) is true
\* exactly when c is Sticky, or c is not Minimized and (active_workspace =
\* c.workspace or (active_tag & c.tag) != 0)
C14_VisibleIffStated ==
    ~crashed =>
        \A c \in Cont : cont[c].alive =>
            (cwc_container_is_visible(World, c)
                <=> \/ "STICKY" \in cont[c].state
                    \/ /\ "MINIMIZED" \notin cont[c].state
                       /\ \/ ostate.active_workspace = cont[c].workspace
                          \/ ostate.active_tag \cap cont[c].tag # {})

\* C14 amended: is_visible(c) is true exactly when c is Sticky, or c is not
\* Minimized, active_workspace and active_tag are both non-zero, and
\* (active_workspace = c.workspace or (active_tag & c.tag) != 0); a
\* toplevel is visible exactly when it is the front toplevel of a visible
\* container
C14_VisibleIff ==
    ~crashed =>
        /\ \A c \in Cont : cont[c].alive =>
               (cwc_container_is_visible(World, c)
                   <=> \/ "STICKY" \in cont[c].state
                       \/ /\ "MINIMIZED" \notin cont[c].state
                          /\ ostate.active_workspace # 0
                          /\ ostate.active_tag # {}
                          /\ \/ ostate.active_workspace = cont[c].workspace
                             \/ ostate.active_tag \cap cont[c].tag # {})
        /\ \A t \in Top : (top[t].mapped /\ top[t].container # NULL) =>
               (cwc_toplevel_is_visible(World, t)
                   <=> /\ cwc_container_is_visible(World, top[t].container)
                       /\ Head(cont[top[t].container].toplevels) = t)

\* a container that is neither sticky nor minimized, on the viewed
\* workspace or sharing a tag with the output, is hidden because
\* active_tag or active_workspace is zero
C14_HiddenByZero ==
    /\ ~crashed
    /\ \E c \in Cont :
           /\ cont[c].alive
           /\ cont[c].state \cap {"STICKY", "MINIMIZED"} = {}
           /\ \/ ostate.active_tag = {}
                 /\ ostate.active_workspace = cont[c].workspace
              \/ ostate.active_workspace = 0
                 /\ ostate.active_tag \cap cont[c].tag # {}
           /\ ~cwc_container_is_visible(World, c)

\* a sticky container is visible while minimized under "view none"
C14_StickyVisible ==
    /\ ~crashed
    /\ \E c \in Cont :
           /\ cont[c].alive
           /\ {"STICKY", "MINIMIZED"} \subseteq cont[c].state
           /\ ostate.active_workspace = 0
           /\ cwc_container_is_visible(World, c)

\* ----------------------------------------------- claims: minimized list
\* the places container c is linked at in the output's minimized list
MinimizedLinks(c) ==
    {i \in 1..Len(ostate.minimized) : ostate.minimized[i] = c}

\* C16: a container is in the output's minimized list iff its Minimized bit
\* is set, and at most once, after any sequence of set_minimized(true) and
\* set_minimized(false); an unmanaged container is never in the list
C16_MinimizedListIffBit ==
    ~crashed =>
        \A c \in Cont : cont[c].alive =>
            /\ (MinimizedLinks(c) # {}) <=> cwc_container_is_minimized(World, c)
            /\ Cardinality(MinimizedLinks(c)) <= 1
            /\ cwc_container_is_unmanaged(World, c) => MinimizedLinks(c) = {}

\* set_minimized(true) ran on a container that was minimized already and the
\* container is linked into the list a second time
C16_LinkedTwice ==
    /\ ~crashed
    /\ last_op.op = "set_minimized"
    /\ "MINIMIZED" \in last_op.state
    /\ Cardinality(MinimizedLinks(last_op.c)) >= 2

\* an unmanaged container was minimized and is in the list
C16_UnmanagedMinimized ==
    /\ ~crashed
    /\ \E c \in Cont :
           /\ cont[c].alive
           /\ cwc_container_is_unmanaged(World, c)
           /\ MinimizedLinks(c) # {}

\* -------------------------------------------- claims: toplevel ownership
\* the live containers that link toplevel t
ContainersOf(t) ==
    {c \in Cont : cont[c].alive /\ InList(cont[c].toplevels, t)}

\* C17: once an event is handled every mapped toplevel belongs to exactly one
\* container, which is the container it points to: after map (with or
\* without an insert mark, whatever container is marked), insert and swap
C17_MappedInOneContainer ==
    ~crashed =>
        \A t \in Top : top[t].mapped =>
            /\ Cardinality(ContainersOf(t)) = 1
            /\ ContainersOf(t) = {top[t].container}
            /\ Cardinality({i \in 1..Len(cont[top[t].container].toplevels) :
                               cont[top[t].container].toplevels[i] = t}) = 1

\* a toplevel was mapped while the insert mark was set and it belongs to no
\* container
C17_MappedWithoutContainer ==
    /\ ~crashed
    /\ last_op.op = "map"
    /\ \E t \in Top :
           /\ top[t].mapped
           /\ ~top[t].unmanaged
           /\ top[t].container = NULL
           /\ ContainersOf(t) = {}
    /\ server.insert_marked # NULL

\* ------------------------------------------------ claims: tile layout
\* the tileable toplevels T[1..n] of the output, master first
TileList == tiled_visible(World, ostate.containers)

ContBox(c) ==
    [x |-> cont[c].x, y |-> cont[c].y,
     width |-> cont[c].width, height |-> cont[c].height]

TileStrategy ==
    /\ ~crashed
    /\ cwc_output_get_current_view_info(World).layout_mode = "MASTER"
    /\ cwc_output_get_current_view_info(World).master_state.current_layout
           = "tile"
    /\ cwc_output_get_current_view_info(World).useless_gaps = 0

\* the rectangle stated for T[i] of n: the master column at the origin of
\* the usable area, the rows right of it
TileStated(i, n) ==
    LET ua   == usable_area
        f    == cwc_output_get_current_view_info(World).master_state.mwfact
        mw   == (ua.width * f[1]) \div f[2]
        rowh == ua.height \div (n - 1)
    IN IF i = 1
       THEN [x |-> ua.x, y |-> ua.y, width |-> mw, height |-> ua.height]
       ELSE [x |-> ua.x + mw, y |-> ua.y + (i - 2) * rowh,
             width |-> ua.width - mw,
             height |-> IF i = n THEN ua.height - (n - 2) * rowh ELSE rowh]

\* C18: in the tile strategy with n >= 2 tileable containers and gap 0,
\* T[0] is the master column of width floor(usable.w * mwfact) and height
\* usable.h at the origin of the usable area, and T[1..n-1] are equal-height
\* rows of the remaining width immediately right of the master column, the
\* last row taking the remainder, for every origin of the usable area
C18_TileRectangles ==
    (TileStrategy /\ Len(TileList) >= 2) =>
        \A i \in 1..Len(TileList) :
            ContBox(top[TileList[i]].container)
                = TileStated(i, Len(TileList))

\* a usable area that starts right of the origin: a row lies over the
\* master column
C18_RowOverMaster ==
    /\ TileStrategy
    /\ Len(TileList) >= 3
    /\ usable_area.x > 0
    /\ LET master == ContBox(top[TileList[1]].container)
           row    == ContBox(top[TileList[2]].container)
       IN /\ master = TileStated(1, Len(TileList))
          /\ row.x < master.x + master.width
          /\ row.y = usable_area.y

\* the stated example: 1920x1080 at the origin, mwfact 0.5, n = 3
C18_ExampleAtOrigin ==
    /\ TileStrategy
    /\ Len(TileList) = 3
    /\ ContBox(top[TileList[1]].container)
           = [x |-> 0, y |-> 0, width |-> 960, height |-> 1080]
    /\ ContBox(top[TileList[2]].container)
           = [x |-> 960, y |-> 0, width |-> 960, height |-> 540]
    /\ ContBox(top[TileList[3]].container)
           = [x |-> 960, y |-> 540, width |-> 960, height |-> 540]

\* the stated rectangles hold while the usable area starts at x = 0
C18_TileRectanglesAtOrigin ==
    usable_area.x = 0 => C18_TileRectangles

\* the master column and the heights and widths are as stated for every
\* origin; only the x position of the rows is not
C18_AllButRowX ==
    (TileStrategy /\ Len(TileList) >= 2) =>
        \A i \in 1..Len(TileList) :
            LET box    == ContBox(top[TileList[i]].container)
                stated == TileStated(i, Len(TileList))
            IN /\ [box EXCEPT !.x = 0] = [stated EXCEPT !.x = 0]
               /\ i = 1 => box.x = stated.x
               /\ i > 1 => box.x = stated.x - usable_area.x

\* -------------------------------------------- claims: floating geometry
ConfigureAllowed(c) ==
    /\ "FULLSCREEN" \notin cont[c].state
    /\ "MAXIMIZED" \notin cont[c].state

\* C15: a container with the Floating bit has its position and size equal
\* to its floating_box whenever configure is allowed (neither fullscreen nor
\* maximized): at every step of an interactive move or resize, after it
\* ends, and after fullscreen and maximized toggles
C15_FloatingBoxIsGeometry ==
    ~crashed =>
        \A c \in Cont :
            (cont[c].alive /\ "FLOATING" \in cont[c].state
                 /\ ConfigureAllowed(c))
                => ContBox(c) = cont[c].floating_box

\* a step of an interactive resize by the left and top edges has moved the
\* container and its floating_box still has the old position
C15_ResizeStepMovedNode ==
    /\ ~crashed
    /\ last_op.op = "motion"
    /\ server.cursor.state = "RESIZE"
    /\ LET c == top[server.cursor.grabbed_toplevel].container
       IN /\ "FLOATING" \in cont[c].state
          /\ ConfigureAllowed(c)
          /\ cont[c].x # cont[c].floating_box.x
          /\ cont[c].width = cont[c].floating_box.width

\* a resize was cut short by request_move: no grab resizes the container
\* any more and its position is still not that of its floating_box
C15_StaleAfterGrabSwitch ==
    /\ ~crashed
    /\ last_op.op = "request_move"
    /\ last_op.prev.state = "RESIZE"
    /\ server.cursor.state = "MOVE"
    /\ \E c \in Cont :
           /\ cont[c].alive /\ "FLOATING" \in cont[c].state
           /\ ConfigureAllowed(c)
           /\ ContBox(c) # cont[c].floating_box

\* the size of the container is that of its floating_box in every state the
\* claim covers
C15_SizeIsFloatingBox ==
    ~crashed =>
        \A c \in Cont :
            (cont[c].alive /\ "FLOATING" \in cont[c].state
                 /\ ConfigureAllowed(c))
                => /\ cont[c].width = cont[c].floating_box.width
                   /\ cont[c].height = cont[c].floating_box.height

\* leaving fullscreen or maximized puts a floating container back on its
\* floating_box, and fullscreen did not change the floating_box
C15_RestoredAfterToggle ==
    (~crashed /\ last_op.op \in {"unset_fullscreen", "unset_maximized"}
        /\ "FLOATING" \in cont[last_op.c].state
        /\ ConfigureAllowed(last_op.c))
        => ContBox(last_op.c) = cont[last_op.c].floating_box

\* a floating container is back on its rectangle after set_fullscreen(true);
\* set_fullscreen(false)
C15_FullscreenRoundTrip ==
    /\ ~crashed
    /\ last_op.op = "unset_fullscreen"
    /\ "FULLSCREEN" \in last_op.state
    /\ "FLOATING" \in cont[last_op.c].state
    /\ ContBox(last_op.c) = [x |-> 100, y |-> 100, width |-> 640,
                             height |-> 480]
    /\ ContBox(last_op.c) = cont[last_op.c].floating_box

\* ---------------------------------------------- claims: minimum size
\* C19: the minimum width and height of a container is 20 px: after any
\* set_size request smaller than that (layout, interactive resize, script)
\* the recorded width and height, and the floating_box when it is saved, are
\* at least 20
C19_SizeAtLeastMinimum ==
    ~crashed =>
        \A c \in Cont : cont[c].alive =>
            /\ cont[c].width >= MIN_WIDTH
            /\ cont[c].height >= MIN_WIDTH
            /\ cont[c].floating_box.width >= MIN_WIDTH
            /\ cont[c].floating_box.height >= MIN_WIDTH

\* an interactive resize dragged the right edge past the left one: the
\* container and its floating_box record a width of 1
C19_ResizedBelowMinimum ==
    /\ ~crashed
    /\ last_op.op = "motion"
    /\ last_op.prev.state = "RESIZE"
    /\ cont[last_op.c].width < MIN_WIDTH
    /\ cont[last_op.c].floating_box.width = cont[last_op.c].width

\* a script set a geometry whose size is below the minimum
C19_ScriptBelowMinimum ==
    /\ ~crashed
    /\ last_op.op = "set_geometry"
    /\ cont[last_op.c].width < MIN_WIDTH
    /\ "FLOATING" \in cont[last_op.c].state
    /\ cont[last_op.c].floating_box.width < MIN_WIDTH

\* --------------------------------------------- claims: interactive grabs
Movable(c) ==
    /\ cwc_container_is_floating(World, c)
    /\ "FULLSCREEN" \notin last_op.state
    /\ "MAXIMIZED" \notin last_op.state
    /\ "UNMANAGED" \notin last_op.state

GrabRequested == ~crashed /\ last_op.op \in {"request_move", "request_resize"}

GrabTaken ==
    /\ server.cursor.state =
           (IF last_op.op = "request_move" THEN "MOVE" ELSE "RESIZE")
    /\ server.cursor.grabbed_toplevel # NULL
    /\ top[server.cursor.grabbed_toplevel].container = last_op.c

\* C20: the cursor leaves Normal for Move or Resize if and only if the
\* target toplevel is movable (floating, not fullscreen, not maximized, not
\* unmanaged); otherwise the cursor state and the grabbed toplevel are
\* unchanged; and the transition is taken only from Normal, never while
\* another grab is in progress
C20_GrabOnlyFromNormal ==
    GrabRequested =>
        IF last_op.prev.state = "NORMAL" /\ Movable(last_op.c)
        THEN GrabTaken
        ELSE server.cursor = last_op.prev

\* a move was started while a resize was in progress
C20_GrabDuringGrab ==
    /\ GrabRequested
    /\ last_op.prev.state = "RESIZE"
    /\ last_op.op = "request_move"
    /\ server.cursor.state = "MOVE"
    /\ server.cursor # last_op.prev

\* from Normal the claim holds: the grab is taken exactly when the toplevel
\* is movable, and nothing changes otherwise
C20_FromNormal ==
    (GrabRequested /\ last_op.prev.state = "NORMAL") =>
        IF Movable(last_op.c) THEN GrabTaken
        ELSE server.cursor = last_op.prev

\* a request for a fullscreen toplevel left the cursor as it was
C20_Refused ==
    /\ GrabRequested
    /\ last_op.prev.state = "NORMAL"
    /\ "FULLSCREEN" \in last_op.state
    /\ server.cursor = last_op.prev

\* ------------------------------------------------ claims: end of a grab
Released == ~crashed /\ last_op.op = "release"

\* C21: stop_interactive() returns the cursor to Normal from any state and
\* applies a rectangle to the grabbed container only if the state was Resize
\* and that grab had a pending scheduled rectangle: a resize grab started
\* and stopped without pointer motion in between leaves the position and
\* size of the container unchanged
C21_StopAppliesPendingOnly ==
    Released =>
        /\ server.cursor.state = "NORMAL"
        /\ server.cursor.grabbed_toplevel = NULL
        /\ (last_op.c # NULL
              /\ (last_op.prev.state # "RESIZE" \/ last_op.fresh))
               => ContBox(last_op.c) = last_op.box

\* a resize grab was released with no motion since it was taken and the
\* container is not where it was
C21_StaleRectApplied ==
    /\ Released
    /\ last_op.prev.state = "RESIZE"
    /\ last_op.fresh
    /\ ContBox(last_op.c) # last_op.box
    /\ ContBox(last_op.c) = last_op.prev.pending_box

\* the same after an earlier resize: the container takes the rectangle of
\* the earlier grab
C21_EarlierRectApplied ==
    /\ C21_StaleRectApplied
    /\ last_op.prev.pending_box # ZeroBox

\* the cursor is Normal after every release, a move grab leaves the
\* container where the last motion put it, and a resize grab that saw motion
\* ends on its pending rectangle
C21_StopFromAnyState ==
    Released =>
        /\ server.cursor.state = "NORMAL"
        /\ server.cursor.grabbed_toplevel = NULL
        /\ (last_op.c # NULL /\ last_op.prev.state = "MOVE")
               => ContBox(last_op.c) = last_op.box
        /\ (last_op.c # NULL /\ last_op.prev.state = "RESIZE")
               => ContBox(last_op.c) = last_op.prev.pending_box

\* ------------------------------------------ claims: resize scheduling
\* the pointer moved while a resize grab was in progress
ResizeMoved == ~crashed /\ last_op.op = "motion"
               /\ last_op.prev.state = "RESIZE"

\* the motions of the grab so far all came within 8 ms, monitor at 120 Hz
InBurst ==
    /\ ResizeMoved
    /\ server.refresh = 120000
    /\ server.now - last_op.first <= 8

\* the edges that are being dragged are where the pointer is, kept one pixel
\* away from the opposite edge
FollowsPointer(box, cursor) ==
    LET e == cursor.resize_edges
        g == cursor.grab_geobox
        px == cursor.x - cursor.grab_x
        py == cursor.y - cursor.grab_y
    IN /\ "LEFT" \in e
           => /\ box.x + box.width = g.x + g.width
              /\ box.x = IF px >= g.x + g.width THEN g.x + g.width - 1 ELSE px
       /\ ("RIGHT" \in e /\ "LEFT" \notin e)
           => /\ box.x = g.x
              /\ box.x + box.width = IF px <= g.x THEN g.x + 1 ELSE px
       /\ "TOP" \in e
           => /\ box.y + box.height = g.y + g.height
              /\ box.y = IF py >= g.y + g.height THEN g.y + g.height - 1
                         ELSE py
       /\ ("BOTTOM" \in e /\ "TOP" \notin e)
           => /\ box.y = g.y
              /\ box.y + box.height = IF py <= g.y THEN g.y + 1 ELSE py

\* C22: during an interactive resize the configures are coalesced to one per
\* monitor refresh interval; with a monitor at 120 Hz the pointer motions of
\* a grab that all come within 8 ms cause exactly one configure, and
\* stop_interactive then applies the rectangle of the last motion
C22_OneConfigurePerBurst ==
    /\ InBurst => last_op.ncfg = 1
    /\ (Released /\ last_op.prev.state = "RESIZE" /\ last_op.motions > 0)
           => FollowsPointer(ContBox(last_op.c), last_op.prev)

\* C22 as amended: a motion configures the client exactly when more than the
\* refresh interval (1000/Hz ms, 8 ms when the rate is unknown) has passed
\* since the grab was taken or last configured the client; at 120 Hz the
\* motions of a grab that all come within 8 ms cause at most one configure,
\* and none when the last of them is within 8 ms of the start of the grab;
\* stop_interactive then applies the rectangle of the last motion
C22_AtMostOneConfigure ==
    /\ ResizeMoved =>
          (last_op.configured <=>
              IF server.refresh = 0 THEN last_op.gap > 8
              ELSE last_op.gap * server.refresh > 1000000)
    /\ InBurst =>
          /\ last_op.ncfg <= 1
          /\ last_op.ncfg = 0 <=> server.now - last_op.taken_at <= 8
    /\ (Released /\ last_op.prev.state = "RESIZE" /\ last_op.motions > 0)
           => FollowsPointer(ContBox(last_op.c), last_op.prev)

\* three motions within 8 ms at 120 Hz, one configure
C22_BurstCoalesced ==
    /\ InBurst
    /\ last_op.motions >= 3
    /\ last_op.ncfg = 1

\* three motions within 8 ms of the start of the grab, no configure
C22_BurstWithoutConfigure ==
    /\ InBurst
    /\ last_op.motions >= 3
    /\ last_op.ncfg = 0

\* a grab with motions that did not all configure is released
C22_Flushed ==
    /\ Released
    /\ last_op.prev.state = "RESIZE"
    /\ last_op.motions >= 2
    /\ last_op.ncfg < last_op.motions
    /\ server.refresh = 120000

\* ------------------------------------------------ claims: resize edges
\* a resize grab was taken by an event that gave no edges
EdgesDecided ==
    /\ ~crashed
    /\ last_op.op \in {"request_resize", "resize_interactive"}
    /\ last_op.given = {}
    /\ server.cursor.state = "RESIZE"
    /\ server.cursor # last_op.prev

\* the pointer in the geometry box of the grabbed toplevel, -1 .. 1, as
\* fractions
PointerN ==
    LET c == last_op.c
    IN [nx |-> <<2 * (server.cursor.x - cont[c].x) - Max(cont[c].width, MIN_WIDTH),
                 Max(cont[c].width, MIN_WIDTH)>>,
        ny |-> <<2 * (server.cursor.y - cont[c].y) - Max(cont[c].height, MIN_WIDTH),
                 Max(cont[c].height, MIN_WIDTH)>>]

AbsLE(n, a, b) == FracGE(n, -a, b) /\ FracLE(n, a, b)

\* an edge by the sign of n; either one when n is 0
BySign(n, neg, pos) ==
    IF n[1] < 0 THEN {neg} ELSE IF n[1] > 0 THEN {pos} ELSE {neg, pos}

\* the edges the pointer position stands for: a single edge when |n| <= 0.3
\* on one axis and the other |n| is in (0.4, 1], else the corner
StatedEdges(nx, ny) ==
    IF AbsLE(nx, 3, 10) /\ ~AbsLE(ny, 4, 10) /\ AbsLE(ny, 1, 1)
    THEN {{e} : e \in BySign(ny, "TOP", "BOTTOM")}
    ELSE IF AbsLE(ny, 3, 10) /\ ~AbsLE(nx, 4, 10) /\ AbsLE(nx, 1, 1)
    THEN {{e} : e \in BySign(nx, "LEFT", "RIGHT")}
    ELSE {{h, v} : h \in BySign(nx, "LEFT", "RIGHT"),
                   v \in BySign(ny, "TOP", "BOTTOM")}

\* C23: start_interactive_resize with edges == 0 takes the edges from the
\* normalized pointer position in the geometry box of the toplevel: a single
\* edge when |n| <= 0.3 on one axis and the other |n| is in (0.4, 1], with
\* the same threshold on both sides, else the corner by the signs of nx and
\* ny; for a toplevel found under the pointer and for one passed explicitly
C23_EdgesAsStated ==
    EdgesDecided =>
        server.cursor.resize_edges \in StatedEdges(PointerN.nx, PointerN.ny)

\* the pointer is in the bottom band (nx = 0, ny = 0.5) and the grab takes
\* the bottom right corner
C23_BandTakenAsCorner ==
    /\ EdgesDecided
    /\ last_op.op = "resize_interactive"
    /\ StatedEdges(PointerN.nx, PointerN.ny) = {{"BOTTOM"}}
    /\ server.cursor.resize_edges = {"RIGHT", "BOTTOM"}

\* the pointer is left of and above the centre and the grab takes the
\* bottom right corner
C23_CornerOffCentre ==
    /\ EdgesDecided
    /\ last_op.op = "resize_interactive"
    /\ StatedEdges(PointerN.nx, PointerN.ny) = {{"LEFT", "TOP"}}
    /\ server.cursor.resize_edges = {"RIGHT", "BOTTOM"}

\* a toplevel passed explicitly: the edges do not come from the pointer
C23_EdgesFromGarbage ==
    /\ EdgesDecided
    /\ last_op.op = "request_resize"
    /\ PointerN.nx = <<576, 640>> /\ PointerN.ny = <<432, 480>>
    /\ server.cursor.resize_edges = {"RIGHT", "TOP"}

\* n is where the code and the stated thresholds differ: [0.4, 0.6),
\* [-0.05, 0) and -0.4
InGap(n) ==
    \/ FracGE(n, 4, 10) /\ ~FracGE(n, 6, 10)
    \/ FracGE(n, -5, 100) /\ n[1] < 0
    \/ n[1] * 10 = -4 * n[2]

\* for the toplevel under the pointer the edges are the stated ones
\* wherever neither coordinate is in a gap
C23_AgreesOutsideGaps ==
    (EdgesDecided /\ last_op.op = "resize_interactive"
        /\ ~InGap(PointerN.nx) /\ ~InGap(PointerN.ny))
        => server.cursor.resize_edges
               \in StatedEdges(PointerN.nx, PointerN.ny)

\* a single edge is taken outside the gaps
C23_SingleEdge ==
    /\ EdgesDecided /\ last_op.op = "resize_interactive"
    /\ ~InGap(PointerN.nx) /\ ~InGap(PointerN.ny)
    /\ server.cursor.resize_edges = {"TOP"}

\* ------------------------------------------------- claims: key release
KeyReleased == ~crashed /\ last_op.op = "key_release"

\* C24: on every key release, whether or not the session lock is engaged and
\* whether or not a binding matched, on_release of the matching binding is
\* dispatched and the release is forwarded to the focused client
C24_ReleaseAlwaysDispatched ==
    KeyReleased =>
        /\ server.key_event.notified = server.focused_surface
        /\ LastKeyInfo.on_release
               => "on_release" \in server.key_event.invoked

\* C24 as amended: every key release is forwarded to the focused client,
\* whether or not the session lock is engaged and whether or not a binding
\* matched; on_release of the matching binding is dispatched exactly when
\* the session lock is not engaged
C24_ReleaseForwarded ==
    KeyReleased =>
        /\ server.key_event.notified = server.focused_surface
        /\ server.key_event.invoked \subseteq {"on_release"}
        /\ "on_release" \in server.key_event.invoked
               <=> (LastKeyInfo.on_release /\ "LOCKED" \notin last_op.state)

\* unlocked, the released key has a binding with on_release: it runs and a
\* toplevel gets the release
C24_BoundReleaseForwarded ==
    /\ KeyReleased
    /\ "LOCKED" \notin last_op.state
    /\ "on_release" \in server.key_event.invoked
    /\ server.key_event.notified = server.focused_surface
    /\ server.focused_surface # NoSurface

\* locked, the released key has a binding with on_release and nothing runs
C24_LockedReleaseNotDispatched ==
    /\ KeyReleased
    /\ "LOCKED" \in last_op.state
    /\ LastKeyInfo.on_release
    /\ server.key_event.invoked = {}
    /\ server.key_event.notified = server.focused_surface

\* ----------------------------------------------- claims: focus signals
\* the keyboard focus went to another surface and neither the session lock
\* nor an exclusive layer surface took it
FocusChanged ==
    /\ ~crashed
    /\ last_op.op \in {"map", "unmap", "click", "layer_map", "layer_unmap"}
    /\ server.focused_surface # last_op.prev
    /\ ~server.session_lock.locked
    /\ server.exclusive_kbd_interactive = NULL

\* the signals emitted for this change of the focus
EmittedNow ==
    IF /\ server.focus_signal.old_surface = last_op.prev
       /\ server.focus_signal.new_surface = server.focused_surface
    THEN server.focus_signal.emitted
    ELSE {}

\* the surface of a toplevel that is mapped and managed
MappedManaged(surface) ==
    /\ surface[1] = "toplevel"
    /\ top[surface[2]].mapped
    /\ ~top[surface[2]].unmanaged

MappedUnmanaged(surface) ==
    /\ surface[1] = "toplevel"
    /\ top[surface[2]].mapped
    /\ top[surface[2]].unmanaged

\* C25: on every change of the keyboard focus that the session lock or an
\* exclusive layer surface does not override, client::focus is emitted on
\* the new toplevel iff it is mapped and managed and client::unfocus on the
\* previous toplevel iff it is mapped and managed, each whether or not the
\* other toplevel is unmanaged
C25_FocusSignals ==
    FocusChanged =>
        /\ "client::focus" \in EmittedNow
               <=> MappedManaged(server.focused_surface)
        /\ "client::unfocus" \in EmittedNow <=> MappedManaged(last_op.prev)

\* the focus went from a managed toplevel to an unmanaged one and the
\* managed one got no client::unfocus
C25_UnfocusLost ==
    /\ FocusChanged
    /\ MappedManaged(last_op.prev)
    /\ MappedUnmanaged(server.focused_surface)
    /\ server.focus_signal.new_surface = server.focused_surface
    /\ server.focus_signal.emitted = {}

\* the focus went from an unmanaged toplevel to a managed one and the
\* managed one got no client::focus
C25_FocusLost ==
    /\ FocusChanged
    /\ MappedUnmanaged(last_op.prev)
    /\ MappedManaged(server.focused_surface)
    /\ server.focus_signal.new_surface = server.focused_surface
    /\ server.focus_signal.emitted = {}

\* the signals are as stated whenever neither toplevel is a mapped
\* unmanaged one
C25_SignalsAmongManaged ==
    (FocusChanged /\ ~MappedUnmanaged(last_op.prev)
        /\ ~MappedUnmanaged(server.focused_surface))
        => /\ "client::focus" \in EmittedNow
                  <=> MappedManaged(server.focused_surface)
           /\ "client::unfocus" \in EmittedNow
                  <=> MappedManaged(last_op.prev)

\* the focus went from one managed toplevel to another: both signals
C25_BothEmitted ==
    /\ FocusChanged
    /\ MappedManaged(last_op.prev)
    /\ MappedManaged(server.focused_surface)
    /\ EmittedNow = {"client::unfocus", "client::focus"}

\* -------------------------------------------- claims: cleared bindings
\* the built-in VT switch bindings are all in the map
CommonKeysPresent ==
    \A i \in 1..12 :
        server.keybind_kbd_map[<<CtrlAlt, xkb_keysym_from_name_F(i)>>]
            = ChvtInfo(i)

Cleared == ~crashed /\ last_op.op \in {"clear", "reload"}

\* C26: after every clearing of the keyboard bindings, from C or from the
\* script-side clear with any argument, the built-in Ctrl+Alt+F1..F12 VT
\* switch bindings are in the keyboard binding map
C26_CommonKeysAfterClear ==
    Cleared => CommonKeysPresent

\* C26 as amended: after every clearing of the keyboard bindings that does
\* not ask for the common keys to be cleared too (from C with
\* clear_common_key false, script-side clear with no argument, false or a
\* value that is not a boolean) the built-in bindings are the whole map;
\* after the script-side clear(true) the map is empty
C26_CommonKeysUnlessAsked ==
    Cleared =>
        IF last_op.op = "clear" /\ last_op.c = "true"
        THEN \A k \in DOMAIN server.keybind_kbd_map :
                 server.keybind_kbd_map[k] = NoBind
        ELSE /\ CommonKeysPresent
             /\ \A k \in DOMAIN server.keybind_kbd_map :
                    k[1] # CtrlAlt => server.keybind_kbd_map[k] = NoBind

\* clear(true): no VT switch binding is left
C26_CommonKeysCleared ==
    /\ Cleared
    /\ last_op.op = "clear"
    /\ last_op.c = "true"
    /\ \A i \in 1..12 :
           server.keybind_kbd_map[<<CtrlAlt, xkb_keysym_from_name_F(i)>>]
               = NoBind

\* clear(1) after other events: the built-in bindings are in the map
C26_CommonKeysKept ==
    /\ Cleared
    /\ last_op.op = "clear"
    /\ last_op.c = "number"
    /\ CommonKeysPresent
    /\ events >= 2

\* the layer surface the keyboard focus is pinned to
Pinned == server.exclusive_kbd_interactive

\* the pinned layer surface was unmapped or destroyed by the last event
PinnedWentAway ==
    /\ last_op.op \in {"layer_unmap", "layer_destroy"}
    /\ last_op.prev # NULL
    /\ last_op.c = last_op.prev

\* C27: the keyboard focus is pinned to a layer surface only while that
\* surface is alive, mapped, on the top or overlay layer and asks for
\* exclusive keyboard interactivity; once the pinned surface is unmapped or
\* destroyed the pin is cleared and the focus is on the newest visible
\* toplevel of the focus stack
C27_PinnedOnlyWhileExclusive ==
    ~crashed =>
        /\ Pinned # NULL =>
               /\ server.lsurf[Pinned].alive
               /\ server.lsurf[Pinned].mapped
               /\ server.lsurf[Pinned].layer \in {"TOP", "OVERLAY"}
               /\ server.lsurf[Pinned].keyboard_interactive = "EXCLUSIVE"
        /\ PinnedWentAway =>
               /\ Pinned = NULL
               /\ LET toplevel ==
                          cwc_output_get_newest_focus_toplevel(World, TRUE)
                  IN server.focused_surface =
                         IF toplevel = NULL THEN NoSurface
                         ELSE ToplevelSurface(toplevel)

\* C27: the focus is pinned to a layer surface that was committed but never
\* mapped
C27_PinnedBeforeMap ==
    /\ ~crashed
    /\ Pinned # NULL
    /\ server.lsurf[Pinned].alive
    /\ ~server.lsurf[Pinned].mapped
    /\ last_op.op = "layer_commit"

\* C27: the focus is pinned to a mapped surface of the bottom layer
C27_PinnedOnBottom ==
    /\ ~crashed
    /\ Pinned # NULL
    /\ server.lsurf[Pinned].mapped
    /\ server.lsurf[Pinned].layer = "BOTTOM"

\* C27: the pinned surface was destroyed and the pin still points to it
C27_PinnedAfterDestroy ==
    /\ ~crashed
    /\ PinnedWentAway
    /\ last_op.op = "layer_destroy"
    /\ Pinned = last_op.c
    /\ ~server.lsurf[Pinned].alive

\* C27: the unmapping of the pinned, mapped surface clears the pin
C27_UnmapClearsPin ==
    /\ ~crashed
    /\ PinnedWentAway
    /\ last_op.op = "layer_unmap"
    /\ Pinned = NULL
    /\ server.focused_surface = ToplevelSurface(1)

\* the number of connections of callback f on signal name that are live after
\* the calls of trace: a connect adds one, a disconnect ends one if any
RECURSIVE LiveConnections(_, _, _)
LiveConnections(trace, name, f) ==
    IF trace = <<>> THEN 0
    ELSE LET before == LiveConnections(SubSeq(trace, 1, Len(trace) - 1),
                                       name, f)
             call == trace[Len(trace)]
         IN IF call = <<"connect", name, f>> THEN before + 1
            ELSE IF call = <<"disconnect", name, f>> /\ before > 0
            THEN before - 1
            ELSE before

\* the number of times f is in calls
Invocations(calls, f) == Len(SelectSeq(calls, LAMBDA g : g = f))

\* C28: each emit of a signal calls a C callback once per connection of it
\* that is still live, and not at all once its last connection was
\* disconnected
C28_OncePerLiveConnection ==
    last_op.op = "emit" =>
        \A f \in Callbacks :
            Invocations(last_op.calls, f) =
                LiveConnections(last_op.trace, last_op.c, f)

\* C28: connect; disconnect; connect; emit called the callback exactly once
C28_ReconnectedCalledOnce ==
    /\ last_op.trace = << <<"connect", "client::map", "on_toplevel_map">>,
                          <<"disconnect", "client::map", "on_toplevel_map">>,
                          <<"connect", "client::map", "on_toplevel_map">>,
                          <<"emit", "client::map", "none">> >>
    /\ last_op.calls = <<"on_toplevel_map">>

\* C28: after connect; emit; disconnect the next emit calls nothing
C28_DisconnectedNotCalled ==
    /\ last_op.trace = << <<"connect", "custom::signal", "on_custom_signal">>,
                          <<"emit", "custom::signal", "none">>,
                          <<"disconnect", "custom::signal",
                            "on_custom_signal">>,
                          <<"emit", "custom::signal", "none">> >>
    /\ last_op.calls = <<>>

\* C28: two connections of one callback are both called
C28_CalledTwice ==
    /\ last_op.op = "emit"
    /\ Invocations(last_op.calls, "on_toplevel_map") = 2

\* an output of this name was destroyed at some earlier moment
EverDestroyed(name) == last_op.destroyed[name] # NULL

\* C29: once an output named N was destroyed the cache holds an entry for N
\* at every later moment, also after an output named N was attached again
C29_NeverEvicts ==
    \A name \in OutputNames :
        EverDestroyed(name) => server.output_state_cache[name] # NULL

\* C29 (amended): once an output named N was destroyed, the cache holds the
\* state of that output under N at every later moment at which no output
\* named N is attached; an output named N that is attached again has taken
\* that state out of the cache
C29_HeldUntilRebound ==
    \A name \in OutputNames :
        EverDestroyed(name) =>
            IF server.outputs[name].attached
            THEN /\ server.output_state_cache[name] = NULL
                 /\ server.outputs[name].state = last_op.destroyed[name]
                 /\ server.outputs[name].restored
            ELSE server.output_state_cache[name] = last_op.destroyed[name]

\* C29: an output was destroyed and attached again: it has its state back
\* and the cache has no entry under its name
C29_ReboundAndRemoved ==
    /\ last_op.op = "new_output"
    /\ EverDestroyed(last_op.c)
    /\ server.outputs[last_op.c].restored
    /\ server.outputs[last_op.c].state = last_op.destroyed[last_op.c]
    /\ server.output_state_cache[last_op.c] = NULL

\* C29: two outputs are detached and the cache holds the state of each
C29_TwoHeld ==
    /\ ~server.outputs["DP-1"].attached
    /\ ~server.outputs["HDMI-A-1"].attached
    /\ server.output_state_cache["DP-1"] # NULL
    /\ server.output_state_cache["HDMI-A-1"] # NULL
    /\ server.output_state_cache["DP-1"] #
           server.output_state_cache["HDMI-A-1"]

\* move_to_tag moved a container to another workspace in the last event
MovedToTag == last_op.op = "move_to_tag" /\ last_op.moved

\* C30: the tiling update of a workspace runs the layout engine of the layout
\* mode of that workspace, not of the active one, and arranges that
\* workspace, as when move_to_tag moves a container to a workspace that is
\* not the active one
C30_EngineOfGivenWorkspace ==
    MovedToTag =>
        LET mode == view_info[last_op.prev].layout_mode
        IN last_op.engine =
               IF mode \in {"BSP", "MASTER"} THEN <<mode, last_op.prev>>
               ELSE <<"NONE", 0>>

\* C30: a container was moved to a workspace in master mode that is not the
\* active one, no layout engine ran and the container kept its rectangle
C30_MovedNotArranged ==
    /\ MovedToTag
    /\ ~crashed
    /\ last_op.prev # ostate.active_workspace
    /\ view_info[last_op.prev].layout_mode = "MASTER"
    /\ view_info[ostate.active_workspace].layout_mode = "FLOATING"
    /\ last_op.engine = <<"NONE", 0>>
    /\ ContBox(last_op.c) # usable_area

\* C30: the BSP engine ran on a workspace whose layout mode is master
C30_WrongEngine ==
    /\ MovedToTag
    /\ ~crashed
    /\ view_info[last_op.prev].layout_mode = "MASTER"
    /\ last_op.engine = <<"BSP", last_op.prev>>

\* C30: a move to the active workspace runs the engine of that workspace
C30_ActiveWorkspaceArranged ==
    /\ MovedToTag
    /\ ~crashed
    /\ last_op.prev = ostate.active_workspace
    /\ last_op.engine = <<"MASTER", last_op.prev>>
    /\ ContBox(last_op.c) = usable_area

\* C30: whenever the workspace given is the active one, the engine is that
\* of its layout mode
C30_EngineOfActiveWorkspace ==
    (MovedToTag /\ last_op.prev = ostate.active_workspace) =>
        LET mode == view_info[last_op.prev].layout_mode
        IN last_op.engine =
               IF mode \in {"BSP", "MASTER"} THEN <<mode, last_op.prev>>
               ELSE <<"NONE", 0>>

\* the toplevel n steps from toplevel t around the ring of list, a positive
\* step going the way focusidx(1) goes
StepsFrom(list, t, n) ==
    LET k == Len(list)
        i == link_position(list, t)
    IN list[((i - 1 - (n % k)) % k) + 1]

FocusIdxDone == ~crashed /\ last_op.op = "focusidx"

\* C31: focusidx(n) on a container of k toplevels makes the toplevel n mod k
\* steps from the front the new front
C31_CyclicByN ==
    FocusIdxDone =>
        cwc_container_get_front_toplevel(World, last_op.c) =
            StepsFrom(cont[last_op.c].toplevels, last_op.prev, last_op.n)

\* C31: focusidx(k + 1) on a container of k >= 2 toplevels left the front
\* where it was, which is not where focusidx(1) puts it
C31_WrapLost ==
    /\ FocusIdxDone
    /\ Len(cont[last_op.c].toplevels) >= 2
    /\ last_op.n = Len(cont[last_op.c].toplevels) + 1
    /\ cwc_container_get_front_toplevel(World, last_op.c) = last_op.prev
    /\ cwc_container_get_front_toplevel(
           cwc_container_focusidx(World, last_op.c, 1), last_op.c)
           # last_op.prev

\* C31: a step of less than one turn is taken as stated, a step of a whole
\* number of turns and a step of zero leave the front where it was
C31_WithinOneTurn ==
    FocusIdxDone =>
        LET k == Len(cont[last_op.c].toplevels)
            n == last_op.n
        IN ((-k < n /\ n < k) \/ n % k = 0) =>
               cwc_container_get_front_toplevel(World, last_op.c) =
                   StepsFrom(cont[last_op.c].toplevels, last_op.prev, n)

\* C31: from every reachable state focusidx(n) followed by focusidx(-n)
\* gives the front back
C31_BackAndForth ==
    \A c \in Cont, n \in StackSteps :
        (~crashed /\ cont[c].alive) =>
            cwc_container_get_front_toplevel(
                cwc_container_focusidx(
                    cwc_container_focusidx(World, c, n), c, 0 - n), c)
                = cwc_container_get_front_toplevel(World, c)

\* C31: a step of two on a container of three toplevels moved the front
C31_TwoOfThree ==
    /\ FocusIdxDone
    /\ Len(cont[last_op.c].toplevels) = 3
    /\ last_op.n = 2
    /\ cwc_container_get_front_toplevel(World, last_op.c) # last_op.prev
    /\ server.focused_surface =
           ToplevelSurface(cwc_container_get_front_toplevel(World, last_op.c))

\* C32: under any interleaving of insert and remove, get of every key
\* returns, and returns the value most recently inserted for the key if the
\* key was not removed since, and NULL otherwise
C32_BehavesAsMap ==
    /\ ~server.hhmap.hung
    /\ \A h \in MapHashes :
           __cwc_hhmap_get(server.hhmap, h) =
               [data |-> last_op.ref[h], hung |-> FALSE]

\* C32: a get was called and never returned
C32_GetNeverReturns ==
    /\ last_op.op = "get"
    /\ last_op.got.hung

\* C32: the chain of a bucket is a cycle
C32_ChainIsCycle ==
    \E h \in MapHashes : cwc_hhmap_lookup(server.hhmap, h).loops

\* C32: the table was expanded and holds seven keys
C32_Expanded ==
    /\ server.hhmap.alloc = 16
    /\ server.hhmap.size = 7
    /\ \A h \in MapHashes :
           __cwc_hhmap_get(server.hhmap, h) =
               [data |-> last_op.ref[h], hung |-> FALSE]

\* C33: every operation that takes or derives a workspace number of 1..30
\* reads and writes only entries of the view_info array, which were
\* initialised when the output state was created
C33_SlotsExist ==
    \A slot \in last_op.slots :
        /\ slot \in ViewSlots
        /\ view_info[slot].initialised

\* C33: set_mwfact on workspace 30 wrote the memory that follows the array
C33_PastTheEnd ==
    /\ last_op.op = "set_mwfact"
    /\ last_op.prev = MAX_WORKSPACE
    /\ ~crashed
    /\ view_info[MAX_WORKSPACE].master_state.mwfact = <<3, 4>>
    /\ MAX_WORKSPACE \notin ViewSlots

\* C33: the layout mode of the view on workspace 30 was read from the memory
\* that follows the array
C33_ModeFromBeyond ==
    /\ last_op.op = "map"
    /\ ostate.active_workspace = MAX_WORKSPACE
    /\ ~crashed
    /\ view_info[MAX_WORKSPACE].bsp_root_entry.root # NULL

\* C33: the operations on the workspaces below 30 stay inside the array
C33_BelowLastWorkspace ==
    (\A slot \in last_op.slots : slot < MAX_WORKSPACE) => C33_SlotsExist

\* C33: an operation on workspace 29 used the last entry of the array
C33_LastSlotUsed ==
    /\ last_op.op = "move_to_tag"
    /\ (MAX_WORKSPACE - 1) \in last_op.slots
    /\ cont[last_op.c].workspace = MAX_WORKSPACE - 1

\* C34: whenever session_lock.locked is true, the locker of the manager is
\* an allocated locker and its lock surface exists, so that no keyboard
\* focus change and no unlock handler reads a freed locker or lock surface
C34_LockerLiveWhileLocked ==
    (~crashed /\ server.session_lock.locked) =>
        /\ server.session_lock.locker # NULL
        /\ server.lockers[server.session_lock.locker].alive
        /\ server.lockers[server.session_lock.locker].lock_surface

\* no second lock has presented a surface
C34_OneLockOnly ==
    \A l \in Locker :
        l # server.session_lock.locker => ~server.lockers[l].lock_surface

\* C34: the only lock was destroyed without an unlock and the session is
\* still locked with the freed locker
C34_LockedByFreedLocker ==
    /\ last_op.op = "lock_destroy"
    /\ ~crashed
    /\ C34_OneLockOnly
    /\ server.session_lock.locked
    /\ server.session_lock.locker = last_op.c
    /\ ~server.lockers[last_op.c].alive

\* C34: a keyboard focus change after that read the freed locker: the read
\* was trapped
C34_FocusChangeReadFreed ==
    /\ last_op.op \in {"focus", "click", "map", "layer_map"}
    /\ last_op.state = {"LOCKED"}
    /\ C34_OneLockOnly
    /\ ~server.lockers[server.session_lock.locker].alive
    /\ crashed

\* C34: or it took the lock surface from the freed memory
C34_FocusFromFreedLocker ==
    /\ last_op.op \in {"focus", "click", "map", "layer_map"}
    /\ last_op.state = {"LOCKED"}
    /\ C34_OneLockOnly
    /\ ~server.lockers[server.session_lock.locker].alive
    /\ ~crashed
    /\ server.freed = "stale"
    /\ server.focused_surface = LockSurface(server.session_lock.locker)

\* C34: until a lock is destroyed without an unlock or a second lock
\* presents a surface, the locker of a locked session is allocated
C34_LiveUntilDestroyed ==
    (/\ ~crashed
     /\ server.session_lock.locked
     /\ C34_OneLockOnly
     /\ last_op.op # "lock_destroy"
     /\ "LOCKED" \in last_op.state => "HELD" \in last_op.state)
        => C34_LockerLiveWhileLocked

\* C35: for every workspace whose BSP tree is not empty, last_focused is a
\* live container whose leaf belongs to the tree of that workspace
C35_LastFocusedInTree ==
    ~crashed =>
        \A w \in Workspace :
            LET entry == view_info[w].bsp_root_entry IN
            entry.root # NULL =>
                /\ entry.last_focused # NULL
                /\ cont[entry.last_focused].alive
                /\ cont[entry.last_focused].bsp_node # NULL
                /\ cont[entry.last_focused].bsp_node \in TreeOf(w)

\* every leaf of a live container is in the tree of the container's workspace
C35_LeavesAtHome ==
    \A c \in Cont :
        (cont[c].alive /\ cont[c].bsp_node # NULL)
            => cont[c].bsp_node \in TreeOf(cont[c].workspace)

\* C35: the last focused container of a workspace is a live container whose
\* leaf is in the tree of another workspace
C35_LastFocusedElsewhere ==
    /\ ~crashed
    /\ \E w \in Workspace :
           LET entry == view_info[w].bsp_root_entry IN
           /\ entry.root # NULL
           /\ entry.last_focused # NULL
           /\ cont[entry.last_focused].alive
           /\ cont[entry.last_focused].bsp_node # NULL
           /\ cont[entry.last_focused].bsp_node \notin TreeOf(w)
           /\ \E v \in Workspace :
                  cont[entry.last_focused].bsp_node \in TreeOf(v)

\* C35: while every leaf is in the tree of its container's workspace, the
\* last focused container of every tree is a live container of that tree
C35_InTreeWhileLeavesAtHome ==
    C35_LeavesAtHome => C35_LastFocusedInTree

\* C35: a container with a sibling in the tree was removed from it, and the
\* tree has a last focused container of its own
C35_AfterRemove ==
    /\ last_op.op \in {"unmap", "move_to_tag"}
    /\ ~crashed
    /\ C35_LeavesAtHome
    /\ \E w \in Workspace :
           /\ view_info[w].bsp_root_entry.root # NULL
           /\ cont[last_op.c].bsp_node \notin TreeOf(w)
           /\ \E c \in Cont : cont[c].alive /\ cont[c].bsp_node \in TreeOf(w)

\* C36: the BSP leaf of a container is enabled only while the container is
\* not minimized, not fullscreen, not maximized and not floating
C36_EnabledOnlyWhileTiled ==
    ~crashed =>
        \A c \in Cont :
            (/\ cont[c].alive
             /\ cont[c].bsp_node # NULL
             /\ nodes[cont[c].bsp_node].enabled)
                => cont[c].state \cap {"MINIMIZED", "FULLSCREEN",
                                       "MAXIMIZED", "FLOATING"} = {}

\* C36: clearing the maximized state of a fullscreen container enabled its
\* leaf
C36_EnabledWhileFullscreen ==
    /\ last_op.op = "unset_maximized"
    /\ ~crashed
    /\ cont[last_op.c].alive
    /\ "FULLSCREEN" \in cont[last_op.c].state
    /\ cont[last_op.c].bsp_node # NULL
    /\ nodes[cont[last_op.c].bsp_node].enabled

\* C36: clearing the fullscreen or maximized state of a minimized container
\* enabled its leaf
C36_EnabledWhileMinimized ==
    /\ last_op.op \in {"unset_maximized", "unset_fullscreen"}
    /\ ~crashed
    /\ cont[last_op.c].alive
    /\ "MINIMIZED" \in cont[last_op.c].state
    /\ "MINIMIZED" \in last_op.state
    /\ cont[last_op.c].bsp_node # NULL
    /\ nodes[cont[last_op.c].bsp_node].enabled

\* C36: setting the minimized, fullscreen or maximized state leaves the leaf
\* of the container disabled
C36_DisabledBySet ==
    (/\ last_op.op \in {"set_minimized", "set_fullscreen", "set_maximized"}
     /\ ~crashed
     /\ cont[last_op.c].alive
     /\ cont[last_op.c].bsp_node # NULL)
        => ~nodes[cont[last_op.c].bsp_node].enabled

\* C36: a container with a leaf was minimized
C36_MinimizedWithLeaf ==
    /\ last_op.op = "set_minimized"
    /\ ~crashed
    /\ cont[last_op.c].bsp_node # NULL
    /\ ~nodes[cont[last_op.c].bsp_node].enabled

\* the managed containers of the output
C37_Managed == {c \in Cont : Managed(c) /\ InList(ostate.containers, c)}

\* C37: after every completed operation that changes the visibility, the
\* scene node of each managed container is enabled exactly when the
\* container is visible
C37_EnabledIffVisible ==
    (/\ ~crashed
     /\ last_op.op \in {"set_sticky", "unset_sticky", "set_minimized",
                        "unset_minimized", "move_to_tag", "view_only",
                        "toggle_tag", "set_active_tag",
                        "client_set_tag", "client_toggle_tag"})
        => \A c \in C37_Managed :
               cont[c].enabled <=> cwc_container_is_visible(World, c)

\* C37: a hidden container was made sticky: it is visible by the predicate
\* and its scene node is still disabled
C37_StickyStaysHidden ==
    /\ last_op.op = "set_sticky"
    /\ ~crashed
    /\ last_op.c \in C37_Managed
    /\ "MINIMIZED" \notin cont[last_op.c].state
    /\ cwc_container_is_visible(World, last_op.c)
    /\ ~cont[last_op.c].enabled

\* C37: a sticky container was minimized: its scene node is disabled and the
\* predicate calls it visible
C37_StickyMinimized ==
    /\ last_op.op = "set_minimized"
    /\ ~crashed
    /\ last_op.c \in C37_Managed
    /\ "STICKY" \in cont[last_op.c].state
    /\ cwc_container_is_visible(World, last_op.c)
    /\ ~cont[last_op.c].enabled

\* C37: the operations that end with cwc_output_update_visible() leave every
\* scene node enabled exactly when its container is visible
C37_AfterUpdateVisible ==
    (/\ ~crashed
     /\ last_op.op \in {"unset_sticky", "view_only", "toggle_tag",
                        "set_active_tag", "client_set_tag",
                        "client_toggle_tag"})
        => \A c \in C37_Managed :
               cont[c].enabled <=> cwc_container_is_visible(World, c)

\* C37: a view switch disabled the scene node of a container of the
\* workspace that was left
C37_HiddenByViewSwitch ==
    /\ last_op.op = "view_only"
    /\ ~crashed
    /\ \E c \in C37_Managed :
           /\ ~cont[c].enabled
           /\ ~cwc_container_is_visible(World, c)
           /\ "MINIMIZED" \notin cont[c].state

\* the struct cwc_output pointers held by the server, the live containers
\* and the live layer surfaces
C38_OutputPointers ==
    {server.focused_output}
        \cup {server.cont_output[c] : c \in {d \in Cont : cont[d].alive}}
        \cup {server.lsurf_output[l] :
                  l \in {k \in LayerId : server.lsurf[k].alive}}

\* C38: after an output is destroyed no handler dereferences it: the focused
\* output and the outputs of the containers and layer surfaces are existing
\* outputs or unused, and no handler reads through a pointer to no output or
\* to a destroyed one
C38_NoDestroyedOutput ==
    /\ ~crashed
    /\ \A output \in C38_OutputPointers \cup last_op.read :
           output = NULL \/ output_exists(World, output)
    /\ NULL \notin last_op.read

\* C38: an output was destroyed and server.focused_output still points to it
C38_FocusedOutputDestroyed ==
    /\ last_op.op = "destroy"
    /\ ~crashed
    /\ server.focused_output # NULL
    /\ ~output_exists(World, server.focused_output)

\* C38: a toplevel was mapped after the output was destroyed: the handler
\* read through the pointer to the destroyed output
C38_MapOnDestroyedOutput ==
    /\ last_op.op = "map"
    /\ \E output \in last_op.read :
           output # NULL /\ ~output_exists(World, output)

\* C38: a layer surface that names no output was created after the output
\* was destroyed
C38_LayerOnDestroyedOutput ==
    /\ last_op.op = "layer_new"
    /\ \E output \in last_op.read :
           output # NULL /\ ~output_exists(World, output)

\* C38: an output of another name was attached first, and a layout operation
\* on a container of the unplugged output read through its pointer
C38_LayoutOnUnpluggedOutput ==
    /\ last_op.op = "set_minimized"
    /\ \E name \in OutputNames : server.outputs[name].attached
    /\ \E output \in last_op.read :
           output # NULL /\ ~output_exists(World, output)

\* C38: when an output of the same name is attached again, no container and
\* no layer surface is left with the destroyed output of that name
C38_ReboundOnSameName ==
    (/\ last_op.op = "new_output"
     /\ server.outputs[last_op.c].restored)
        => \A output \in C38_OutputPointers :
               output # server.old_output[last_op.c]

\* C38: a container of the destroyed output was given the new output of the
\* same name
C38_ContainerRebound ==
    /\ last_op.op = "new_output"
    /\ server.outputs[last_op.c].restored
    /\ \E c \in Cont :
           /\ cont[c].alive
           /\ server.cont_output[c] = server.outputs[last_op.c].id

\* --------------------------- claims: emission with callbacks that act
\* the number of times entry id was called
TimesCalled(id) == Len(SelectSeq(last_op.calls, LAMBDA k : k = id))

\* C39: an emission whose callbacks disconnect themselves or another
\* subscriber, or connect a new one, visits no freed entry and calls every
\* subscriber that was connected at the start and is still connected
\* exactly once
C39_EmissionWellDefined ==
    last_op.op = "emit" =>
        /\ ~last_op.read_freed
        /\ \A id \in 1..last_op.start :
               id \in ListSet(last_op.ids) => TimesCalled(id) = 1

\* C39 (the failing case): a callback disconnected its own entry and the
\* walk read the freed entry to find the next one
C39_FreedEntryRead ==
    /\ last_op.op = "emit"
    /\ last_op.read_freed
    /\ crashed

\* C39 (the part that holds): as long as no callback disconnects the entry
\* being visited, no freed entry is read and every subscriber of the start
\* that is still connected was called exactly once, unless the walk does
\* not end
C39_WellDefinedUnlessSelf ==
    (last_op.op = "emit" /\ ~last_op.read_freed /\ ~last_op.loops) =>
        /\ ~crashed
        /\ \A id \in 1..last_op.start :
               id \in ListSet(last_op.ids) => TimesCalled(id) = 1

\* C39 (a case that works): a callback disconnected a subscriber that had
\* not been called yet, and that one was not called
C39_OtherDisconnected ==
    /\ last_op.op = "emit"
    /\ ~last_op.read_freed
    /\ \E id \in 1..last_op.start :
           id \notin ListSet(last_op.ids) /\ TimesCalled(id) = 0

\* C39 (a case that works): a callback connected a new subscriber, which
\* the same emission called
C39_NewOneCalled ==
    /\ last_op.op = "emit"
    /\ ~last_op.loops
    /\ \E id \in ListSet(last_op.ids) :
           id > last_op.start /\ TimesCalled(id) = 1

\* C39 (a further case): a callback that connects itself again makes the
\* walk endless
C39_WalkDoesNotEnd == last_op.op = "emit" /\ last_op.loops

\* ------------------------------------------------- claims: toggle_split
\* the leaf of the last toggle_split had no parent, or the container had no
\* leaf
ToggledWithoutParent ==
    last_op.node = NULL \/ last_op.prev[last_op.node].parent = NULL

\* exactly the parent of the leaf changed its split kind, to the other one
OnlyParentFlipped ==
    LET parent == last_op.prev[last_op.node].parent
    IN /\ \A n \in Node :
              n # parent => nodes[n].split_type = last_op.prev[n].split_type
       /\ nodes[parent].split_type # last_op.prev[parent].split_type
       /\ nodes[parent].split_type \in {"VERTICAL", "HORIZONTAL"}

\* C40: toggle_split on a container whose leaf is the root of its tree, or
\* that has no leaf, changes no split kind and no rectangle and reads no
\* missing node; on any other leaf it flips the split kind of the parent
\* only
C40_ToggleSplit ==
    last_op.op = "toggle_split" =>
        /\ ~crashed
        /\ IF ToggledWithoutParent THEN nodes = last_op.prev
           ELSE OnlyParentFlipped

\* C40 (the failing case): the leaf was the root of the tree and the toggle
\* read the split kind of the parent it does not have
C40_RootLeafToggled ==
    /\ last_op.op = "toggle_split"
    /\ last_op.node # NULL
    /\ last_op.prev[last_op.node].type = "LEAF"
    /\ last_op.prev[last_op.node].parent = NULL
    /\ crashed

\* C40 (the part that holds): a container without a leaf is left alone, and
\* a leaf with a parent flips the split kind of the parent only
C40_ExceptRootLeaf ==
    (last_op.op = "toggle_split"
         /\ (last_op.node # NULL => last_op.prev[last_op.node].parent # NULL))
        => /\ ~crashed
           /\ IF last_op.node = NULL THEN nodes = last_op.prev
              ELSE OnlyParentFlipped

\* C40 (a case that works): a container without a leaf was toggled
C40_NoLeafToggled ==
    /\ last_op.op = "toggle_split"
    /\ last_op.node = NULL
    /\ ~crashed

\* C40 (a case that works): a leaf with a parent was toggled and the
\* rectangles of the two children changed with the split kind
C40_ParentFlipped ==
    /\ last_op.op = "toggle_split"
    /\ ~ToggledWithoutParent
    /\ ~crashed
    /\ nodes[last_op.node].width # last_op.prev[last_op.node].width

====
